---- MODULE Spec2Model ----
(***************************************************************************)
(* Model of the snapshot service of portdeveloper/nft-snapshot.            *)
(*                                                                         *)
(* The repository holds three successive versions of GET /api/snapshot:    *)
(*   "sem"   src/app/api/snapshot/route.ts 1-759: admission semaphore,     *)
(*           ERC-721 / ERC-20 / ERC-1155, iteration bound, own API key;    *)
(*   "lim"   src/app/about/page.tsx 152-601: ERC-721 / ERC-20, iteration   *)
(*           and time bound, wasLimited in the fetch result;               *)
(*   "cache" src/app/api/snapshot/route.ts 761-1085: ERC-721 only, no      *)
(*           bound, Merkle tree and database cache.                        *)
(* A behaviour runs one version (variable `variant`).                      *)
(*                                                                         *)
(* Strings are sequences of one-character strings.  Hex widths are scaled: *)
(* an address has as many hex digits as ZERO_ADDRESS below (40 in the      *)
(* source).  JavaScript runs each handler to its next await atomically, so *)
(* one action is the code between two awaits.                              *)
(***************************************************************************)
EXTENDS Integers, Sequences, FiniteSets

\* ------------------------------------------------------------------ bounds
\* requests
NumReq == 2
\* pages the upstream of the admission specification has after the first
MaxAdmPages == 1
\* highest explicit options.timeoutMs passed to a fetch function
MaxTimeoutOpt == 1
\* highest chain head the upstream reaches
MaxHead == 2
\* highest value of the wall clock (milliseconds, scaled)
MaxTime == 2
\* highest explicit options.maxIterations passed to a fetch function
MaxIterOpt == 2
\* pages the upstream of the ledger specification has
MaxLedgerPages == 2
\* pages the upstream of the replay specification has
MaxReplayPages == 2
\* pages the upstream of the cache specification has
MaxCachePages == 2
\* tokens the upstream of the Merkle specification may have minted
MaxMerkleLeaves == 5
\* tokens the upstream of the round-trip specification may have minted
MaxTripLeaves == 3
\* pages the upstream of the preview specification has
MaxPreviewPages == 2
\* pages the upstream of the twin specification has
MaxTwinPages == 2

\* --------------------------------------------------------- program constants
\* new Semaphore(1)
SemaphoreMax == 1
\* options.maxIterations || 10000
DefaultMaxIterations == 10000
\* const MAX_PREVIEW = 1000, scaled to four entries
MAX_PREVIEW == 4
\* retryAfter: 10
RetryAfter == 10

\* ------------------------------------------------------------------ strings
Min(a, b) == IF a < b THEN a ELSE b

\* String.prototype.slice(-n): the last n characters, the whole string when shorter
SliceLast(s, n) == IF Len(s) <= n THEN s ELSE SubSeq(s, Len(s) - n + 1, Len(s))

\* Array.prototype.slice(0, n)
SliceFirst(s, n) == SubSeq(s, 1, Min(n, Len(s)))

LowerChar(c) ==
  CASE c = "A" -> "a" [] c = "B" -> "b" [] c = "C" -> "c"
    [] c = "D" -> "d" [] c = "E" -> "e" [] c = "F" -> "f"
    [] c = "X" -> "x" [] OTHER -> c

\* String.prototype.toLowerCase
ToLowerCase(s) == [i \in 1..Len(s) |-> LowerChar(s[i])]

DecChars == {"0", "1", "2", "3", "4", "5", "6", "7", "8", "9"}

HexChars == DecChars \cup {"a", "b", "c", "d", "e", "f", "A", "B", "C", "D", "E", "F"}

DigitVal(c) ==
  CASE c = "0" -> 0 [] c = "1" -> 1 [] c = "2" -> 2 [] c = "3" -> 3
    [] c = "4" -> 4 [] c = "5" -> 5 [] c = "6" -> 6 [] c = "7" -> 7
    [] c = "8" -> 8 [] c = "9" -> 9
    [] c \in {"a", "A"} -> 10 [] c \in {"b", "B"} -> 11
    [] c \in {"c", "C"} -> 12 [] c \in {"d", "D"} -> 13
    [] c \in {"e", "E"} -> 14 [] c \in {"f", "F"} -> 15

\* the value of the digit string s in the given base
DigitsVal(s, base) ==
  LET v[i \in 0..Len(s)] == IF i = 0 THEN 0 ELSE v[i - 1] * base + DigitVal(s[i])
  IN v[Len(s)]

IsHexLiteral(s) ==
  /\ Len(s) >= 3
  /\ s[1] = "0"
  /\ s[2] \in {"x", "X"}
  /\ \A i \in 3..Len(s) : s[i] \in HexChars

IsDecLiteral(s) == \A i \in 1..Len(s) : s[i] \in DecChars

\* BigInt(string) raises a SyntaxError unless the string is a numeric literal
BigIntThrows(s) == ~IsHexLiteral(s) /\ ~IsDecLiteral(s)

\* BigInt(string): the empty string is 0n
BigInt(s) ==
  IF IsHexLiteral(s) THEN DigitsVal(SubSeq(s, 3, Len(s)), 16) ELSE DigitsVal(s, 10)

DecChar(d) ==
  CASE d = 0 -> "0" [] d = 1 -> "1" [] d = 2 -> "2" [] d = 3 -> "3" [] d = 4 -> "4"
    [] d = 5 -> "5" [] d = 6 -> "6" [] d = 7 -> "7" [] d = 8 -> "8" [] d = 9 -> "9"

RECURSIVE BigIntToString(_)
\* BigInt.prototype.toString() of a non-negative value: canonical decimal digits
BigIntToString(n) ==
  IF n < 10 THEN <<DecChar(n)>> ELSE Append(BigIntToString(n \div 10), DecChar(n % 10))

\* a string is truthy unless it is empty; a missing field (undefined) is modelled
\* as the empty string, which the code treats the same way
Truthy(s) == Len(s) > 0

\* --------------------------------------------------------------------- Map
\* a JavaScript Map: entries in insertion order, set() on a present key keeps its place
MapHas(m, k) == \E i \in 1..Len(m) : m[i].k = k

MapGet(m, k) == m[CHOOSE i \in 1..Len(m) : m[i].k = k].v

MapSet(m, k, v) ==
  IF MapHas(m, k)
  THEN [i \in 1..Len(m) |-> IF m[i].k = k THEN [k |-> k, v |-> v] ELSE m[i]]
  ELSE Append(m, [k |-> k, v |-> v])

MapKeys(m) == [i \in 1..Len(m) |-> m[i].k]

SeqRange(s) == {s[i] : i \in 1..Len(s)}

\* Array.prototype.sort(cmp): stable, an element moves before those it compares
\* below; cmp is the comparator as a function on pairs of elements
ArraySort(s, cmp) ==
  LET Insert(t, x) ==
        LET p == CHOOSE j \in 0..Len(t) :
                   /\ \A i \in 1..j : cmp[x, t[i]] >= 0
                   /\ j < Len(t) => cmp[x, t[j + 1]] < 0
        IN SubSeq(t, 1, p) \o <<x>> \o SubSeq(t, p + 1, Len(t))
      f[i \in 0..Len(s)] == IF i = 0 THEN <<>> ELSE Insert(f[i - 1], s[i])
  IN f[Len(s)]

\* the concatenation of a sequence of sequences
Flatten(ss) ==
  LET f[i \in 0..Len(ss)] == IF i = 0 THEN <<>> ELSE f[i - 1] \o ss[i]
  IN f[Len(ss)]

\* ---------------------------------------------------------------- decoding
\* Transfer(address,address,uint256), ERC-721 and ERC-20 (scaled)
TRANSFER_EVENT_SIGNATURE == <<"0", "x", "d", "d">>

ZERO_ADDRESS == <<"0", "x", "0", "0">>

\* the number of hex digits of an address (40 in the source)
AddressDigits == Len(ZERO_ADDRESS) - 2

\* "0x" + topic.slice(-40).toLowerCase()
parseAddress(topic) == <<"0", "x">> \o ToLowerCase(SliceLast(topic, AddressDigits))

\* BigInt(topic).toString(); raises when BigInt(topic) does
parseTokenId(topic) == BigIntToString(BigInt(topic))

\* ------------------------------------------------------------ upstream pages
\* response.data?.length, 0 when the field is missing
DataLength(response) == IF "data" \in DOMAIN response THEN Len(response.data) ELSE 0

\* response.next_block is truthy: present and not 0
NextBlockTruthy(response) == "next_block" \in DOMAIN response /\ response.next_block # 0

\* the logs of a response in the order the nested loops visit them; a block
\* without a logs field is skipped
LogsOf(response) ==
  IF DataLength(response) > 0
  THEN Flatten([i \in 1..Len(response.data) |->
                  IF "logs" \in DOMAIN response.data[i] THEN response.data[i].logs ELSE <<>>])
  ELSE <<>>

\* ------------------------------------------------------------ ERC-721 replay
\* the guard of the innermost loop body
ERC721LogApplies(log) == Truthy(log.topic2) /\ Truthy(log.topic3)

\* a reducer that keeps the first owner recorded for a tokenId
ERC721SetOwnerFirstWins(ownership, log) ==
  IF MapHas(ownership, parseTokenId(log.topic3))
  THEN ownership
  ELSE MapSet(ownership, parseTokenId(log.topic3), parseAddress(log.topic2))

\* ownership.set(tokenId, to)
ERC721SetOwner(ownership, log) ==
  MapSet(ownership, parseTokenId(log.topic3), parseAddress(log.topic2))

\* the nested loops over one response: the logs up to the first one whose
\* tokenId topic makes BigInt raise are applied, then the error propagates
ApplyERC721(ownership, logs) ==
  LET st[i \in 0..Len(logs)] ==
        IF i = 0 THEN [threw |-> FALSE, ledger |-> ownership, applied |-> <<>>]
        ELSE LET p == st[i - 1]
                 log == logs[i]
             IN IF p.threw \/ ~ERC721LogApplies(log) THEN p
                ELSE IF BigIntThrows(log.topic3) THEN [p EXCEPT !.threw = TRUE]
                ELSE [threw |-> FALSE,
                      ledger |-> ERC721SetOwner(p.ledger, log),
                      applied |-> Append(p.applied,
                                         [tokenId |-> parseTokenId(log.topic3),
                                          to |-> parseAddress(log.topic2),
                                          block |-> log.block])]
  IN st[Len(logs)]

\* ------------------------------------------------------------- ERC-20 replay
\* a parseValue that reads an unusable payload as the amount 0
parseValueZero(data) ==
  IF ~Truthy(data) \/ data = <<"0", "x">> \/ Len(data) <= 2 \/ BigIntThrows(data)
  THEN [null |-> FALSE, value |-> 0]
  ELSE [null |-> FALSE, value |-> BigInt(data)]

\* parseValue: null for a missing, empty or "0x" payload and when BigInt raises
parseValue(data) ==
  IF ~Truthy(data) \/ data = <<"0", "x">> \/ Len(data) <= 2 \/ BigIntThrows(data)
  THEN [null |-> TRUE, value |-> 0]
  ELSE [null |-> FALSE, value |-> BigInt(data)]

\* balances.get(k) || 0n
BalanceOf(balances, k) == IF MapHas(balances, k) THEN MapGet(balances, k) ELSE 0

\* a transfer that credits the recipient whatever its address
TransferCreditsZero(balances, from, to, value) ==
  LET debited == IF from # ZERO_ADDRESS
                 THEN MapSet(balances, from, BalanceOf(balances, from) - value)
                 ELSE balances
  IN MapSet(debited, to, BalanceOf(debited, to) + value)

\* the debit and the credit of one transfer
Transfer(balances, from, to, value) ==
  LET debited == IF from # ZERO_ADDRESS
                 THEN MapSet(balances, from, BalanceOf(balances, from) - value)
                 ELSE balances
  IN IF to # ZERO_ADDRESS
     THEN MapSet(debited, to, BalanceOf(debited, to) + value)
     ELSE debited

\* the nested loops over one response; nothing in them raises
ApplyERC20(balances, logs) ==
  LET st[i \in 0..Len(logs)] ==
        IF i = 0 THEN [threw |-> FALSE, ledger |-> balances, applied |-> <<>>]
        ELSE LET p == st[i - 1]
                 log == logs[i]
                 parsed == parseValue(log.data)
             IN IF ~(Truthy(log.topic1) /\ Truthy(log.topic2)) \/ parsed.null THEN p
                ELSE [threw |-> FALSE,
                      ledger |-> Transfer(p.ledger, parseAddress(log.topic1),
                                          parseAddress(log.topic2), parsed.value),
                      applied |-> Append(p.applied,
                                         [from |-> parseAddress(log.topic1),
                                          to |-> parseAddress(log.topic2),
                                          value |-> parsed.value,
                                          block |-> log.block])]
  IN st[Len(logs)]

\* a filter that keeps the entries with balance 0
PositiveEntriesKeepZero(balances) ==
  LET f[i \in 0..Len(balances)] ==
        IF i = 0 THEN <<>>
        ELSE IF balances[i].v >= 0 THEN Append(f[i - 1], balances[i]) ELSE f[i - 1]
  IN f[Len(balances)]

\* .filter(([, balance]) => balance > 0n)
PositiveEntries(balances) ==
  LET f[i \in 0..Len(balances)] ==
        IF i = 0 THEN <<>>
        ELSE IF balances[i].v > 0 THEN Append(f[i - 1], balances[i]) ELSE f[i - 1]
  IN f[Len(balances)]

\* a comparator for ascending balances
CompareBalancesAsc(a, b) == IF a.v > b.v THEN 1 ELSE IF a.v < b.v THEN 0 - 1 ELSE 0

\* (a, b) => (b[1] > a[1] ? 1 : b[1] < a[1] ? -1 : 0)
CompareBalancesDesc(a, b) == IF b.v > a.v THEN 1 ELSE IF b.v < a.v THEN 0 - 1 ELSE 0

\* sortedEntries
SortedEntries(balances) ==
  LET entries == PositiveEntries(balances)
  IN ArraySort(entries, [a \in SeqRange(entries), b \in SeqRange(entries) |->
                           CompareBalancesDesc(a, b)])

\* activeBalances
ActiveBalances(balances) ==
  LET e == SortedEntries(balances)
  IN [i \in 1..Len(e) |-> [address |-> e[i].k, balance |-> BigIntToString(e[i].v)]]

\* a total over every ledger entry, whatever its sign
TotalSupplyOfAll(balances) ==
  LET f[i \in 0..Len(balances)] == IF i = 0 THEN 0 ELSE f[i - 1] + balances[i].v
  IN f[Len(balances)]

\* sortedEntries.reduce((sum, [, bal]) => sum + bal, 0n)
TotalSupply(balances) ==
  LET e == SortedEntries(balances)
      f[i \in 0..Len(e)] == IF i = 0 THEN 0 ELSE f[i - 1] + e[i].v
  IN f[Len(e)]

\* ----------------------------------------------------------- ERC-1155 replay
TRANSFER_SINGLE_SIGNATURE == <<"0", "x", "c", "3">>

TRANSFER_BATCH_SIGNATURE == <<"0", "x", "4", "a">>

\* a 32-byte ABI word, scaled to one byte: two hex digits (64 in the source)
ZeroWord == <<"0", "0">>

WordDigits == Len(ZeroWord)

\* String.prototype.slice(a, b)
Slice(s, a, b) == IF a >= Min(b, Len(s)) THEN <<>> ELSE SubSeq(s, a + 1, Min(b, Len(s)))

\* BigInt("0x" + digits) raises on no digits and on a non-hex digit
HexThrows(digits) == BigIntThrows(<<"0", "x">> \o digits)

HexValue(digits) == BigInt(<<"0", "x">> \o digits)

\* a parseTransferSingleData that takes a payload of two words and no more
parseTransferSingleDataExact(data) ==
  LET idDigits == Slice(data, 2, 2 + WordDigits)
      valueDigits == Slice(data, 2 + WordDigits, 2 + 2 * WordDigits)
  IN IF ~Truthy(data) \/ Len(data) # 2 + 2 * WordDigits
        \/ HexThrows(idDigits) \/ HexThrows(valueDigits)
     THEN [null |-> TRUE, transfers |-> <<>>]
     ELSE [null |-> FALSE,
           transfers |-> <<[tokenId |-> BigIntToString(HexValue(idDigits)),
                            value |-> HexValue(valueDigits)]>>]

\* parseTransferSingleData: id word, then value word
parseTransferSingleData(data) ==
  LET idDigits == Slice(data, 2, 2 + WordDigits)
      valueDigits == Slice(data, 2 + WordDigits, 2 + 2 * WordDigits)
  IN IF ~Truthy(data) \/ Len(data) < 2 + 2 * WordDigits
        \/ HexThrows(idDigits) \/ HexThrows(valueDigits)
     THEN [null |-> TRUE, transfers |-> <<>>]
     ELSE [null |-> FALSE,
           transfers |-> <<[tokenId |-> BigIntToString(HexValue(idDigits)),
                            value |-> HexValue(valueDigits)]>>]

\* parseTransferBatchData: two head offsets (in bytes), then at each offset a
\* length word and that many element words
parseTransferBatchData(data) ==
  IF ~Truthy(data) \/ Len(data) < 2 + 4 * WordDigits
     \/ HexThrows(Slice(data, 2, 2 + WordDigits))
     \/ HexThrows(Slice(data, 2 + WordDigits, 2 + 2 * WordDigits))
  THEN [null |-> TRUE, transfers |-> <<>>]
  ELSE
    LET idsOffset == HexValue(Slice(data, 2, 2 + WordDigits))
        valuesOffset == HexValue(Slice(data, 2 + WordDigits, 2 + 2 * WordDigits))
        idsLengthStart == 2 + idsOffset * 2
        valuesLengthStart == 2 + valuesOffset * 2
        idsLenDigits == Slice(data, idsLengthStart, idsLengthStart + WordDigits)
        valuesLenDigits == Slice(data, valuesLengthStart, valuesLengthStart + WordDigits)
    IN IF HexThrows(idsLenDigits) \/ HexThrows(valuesLenDigits)
       THEN [null |-> TRUE, transfers |-> <<>>]
       ELSE
         LET idsLength == HexValue(idsLenDigits)
             valuesLength == HexValue(valuesLenDigits)
             idDigits(i) == Slice(data, idsLengthStart + WordDigits + i * WordDigits,
                                  idsLengthStart + WordDigits + i * WordDigits + WordDigits)
             valueDigits(i) == Slice(data, valuesLengthStart + WordDigits + i * WordDigits,
                                     valuesLengthStart + WordDigits + i * WordDigits + WordDigits)
         IN IF idsLength # valuesLength \/ idsLength = 0
               \/ \E i \in 0..(idsLength - 1) : HexThrows(idDigits(i)) \/ HexThrows(valueDigits(i))
            THEN [null |-> TRUE, transfers |-> <<>>]
            ELSE [null |-> FALSE,
                  transfers |-> [j \in 1..idsLength |->
                                   [tokenId |-> BigIntToString(HexValue(idDigits(j - 1))),
                                    value |-> HexValue(valueDigits(j - 1))]]]

\* a decoding that keeps the first (id, value) pair of a batch only
TransfersOfFirstOnly(log) ==
  IF log.topic0 = TRANSFER_SINGLE_SIGNATURE
  THEN parseTransferSingleData(log.data).transfers
  ELSE IF log.topic0 = TRANSFER_BATCH_SIGNATURE
  THEN SliceFirst(parseTransferBatchData(log.data).transfers, 1)
  ELSE <<>>

\* the transfers one ERC-1155 log stands for
TransfersOf(log) ==
  IF log.topic0 = TRANSFER_SINGLE_SIGNATURE
  THEN parseTransferSingleData(log.data).transfers
  ELSE IF log.topic0 = TRANSFER_BATCH_SIGNATURE
  THEN parseTransferBatchData(log.data).transfers
  ELSE <<>>

\* balances.get(address)?.get(tokenId) || 0n
BalanceOf1155(balances, address, tokenId) ==
  IF MapHas(balances, address) THEN BalanceOf(MapGet(balances, address), tokenId) ELSE 0

\* set the balance of (address, tokenId), creating the inner Map when needed
SetBalance1155(balances, address, tokenId, value) ==
  MapSet(balances, address,
         MapSet(IF MapHas(balances, address) THEN MapGet(balances, address) ELSE <<>>,
                tokenId, value))

\* a transfer without the debit half
Transfer1155NoDebit(balances, from, to, tokenId, value) ==
  IF to # ZERO_ADDRESS
  THEN SetBalance1155(balances, to, tokenId, BalanceOf1155(balances, to, tokenId) + value)
  ELSE balances

\* the debit and the credit of one (tokenId, value) of a log
Transfer1155(balances, from, to, tokenId, value) ==
  LET debited == IF from # ZERO_ADDRESS
                 THEN SetBalance1155(balances, from, tokenId,
                                     BalanceOf1155(balances, from, tokenId) - value)
                 ELSE balances
  IN IF to # ZERO_ADDRESS
     THEN SetBalance1155(debited, to, tokenId, BalanceOf1155(debited, to, tokenId) + value)
     ELSE debited

\* the nested loops over one response; nothing in them raises
ApplyERC1155(balances, logs) ==
  LET One(p, log) ==
        LET ts == TransfersOf(log)
            from == parseAddress(log.topic2)
            to == parseAddress(log.topic3)
            g[j \in 0..Len(ts)] ==
              IF j = 0 THEN p
              ELSE [threw |-> FALSE,
                    ledger |-> Transfer1155(g[j - 1].ledger, from, to,
                                            ts[j].tokenId, ts[j].value),
                    applied |-> Append(g[j - 1].applied,
                                       [from |-> from, to |-> to, tokenId |-> ts[j].tokenId,
                                        value |-> ts[j].value, block |-> log.block])]
        IN g[Len(ts)]
      st[i \in 0..Len(logs)] ==
        IF i = 0 THEN [threw |-> FALSE, ledger |-> balances, applied |-> <<>>]
        ELSE IF ~Truthy(logs[i].topic2) \/ ~Truthy(logs[i].topic3) \/ ~Truthy(logs[i].data)
             THEN st[i - 1]
             ELSE One(st[i - 1], logs[i])
  IN st[Len(logs)]

\* the holdings with a positive balance, in Map iteration order
PositiveHoldings(balances) ==
  Flatten([a \in 1..Len(balances) |->
             LET inner == PositiveEntries(balances[a].v)
             IN [i \in 1..Len(inner) |->
                   [address |-> balances[a].k, tokenId |-> inner[i].k,
                    balance |-> BigIntToString(inner[i].v)]]])

\* the comparator of holdings.sort: tokenId ascending, then balance descending
CompareHoldings(a, b) ==
  IF BigInt(a.tokenId) - BigInt(b.tokenId) # 0
  THEN BigInt(a.tokenId) - BigInt(b.tokenId)
  ELSE IF BigInt(b.balance) > BigInt(a.balance) THEN 1
  ELSE IF BigInt(b.balance) < BigInt(a.balance) THEN 0 - 1
  ELSE 0

\* holdings, sorted
Holdings(balances) ==
  LET holdings == PositiveHoldings(balances)
  IN ArraySort(holdings, [a \in SeqRange(holdings), b \in SeqRange(holdings) |->
                            CompareHoldings(a, b)])

\* ------------------------------------------------------- ERC-721 finalization
\* (a, b) => Number(BigInt(a) - BigInt(b)); only the sign matters to sort
CompareTokenIds(a, b) == BigInt(a) - BigInt(b)

\* Array.from(ownership.keys()).sort(...)
SortedTokenIds(ownership) ==
  LET keys == MapKeys(ownership)
  IN ArraySort(keys, [a \in SeqRange(keys), b \in SeqRange(keys) |-> CompareTokenIds(a, b)])

\* a finalization that lists every ledger entry, the zero address included
ActiveOwnershipKeepBurned(ownership) ==
  LET ids == SortedTokenIds(ownership)
  IN [i \in 1..Len(ids) |-> [tokenId |-> ids[i], owner |-> MapGet(ownership, ids[i])]]

\* the entries whose owner is not the zero address, in sorted tokenId order
ActiveOwnership(ownership) ==
  LET ids == SortedTokenIds(ownership)
      f[i \in 0..Len(ids)] ==
        IF i = 0 THEN <<>>
        ELSE IF MapGet(ownership, ids[i]) # ZERO_ADDRESS
             THEN Append(f[i - 1], [tokenId |-> ids[i], owner |-> MapGet(ownership, ids[i])])
             ELSE f[i - 1]
  IN f[Len(ids)]

\* a count of the entries, the owners collected in an array instead of a Set
UniqueOwnersCountOfEntries(activeOwnership) == Len(activeOwnership)

\* uniqueOwners.size
UniqueOwnersCount(activeOwnership) ==
  Cardinality({activeOwnership[i].owner : i \in 1..Len(activeOwnership)})

\* ------------------------------------------------------------ Merkle leaves
\* String.padStart(n, c)
PadStart(s, n, c) == [i \in 1..(IF Len(s) >= n THEN 0 ELSE n - Len(s)) |-> c] \o s

HexChar(d) ==
  CASE d = 10 -> "a" [] d = 11 -> "b" [] d = 12 -> "c" [] d = 13 -> "d"
    [] d = 14 -> "e" [] d = 15 -> "f" [] OTHER -> DecChar(d)

RECURSIVE BigIntToHex(_)
\* BigInt.toString(16) of a non-negative value
BigIntToHex(n) ==
  IF n < 16 THEN <<HexChar(n)>>
  ELSE Append(BigIntToHex(n \div 16), HexChar(n % 16))

\* keccak256 as a collision-free function: the digest is its tagged input
keccak256(packed) == <<"keccak256">> \o packed

\* createLeaf: keccak256 over the owner's bytes and the tokenId as one word
createLeaf(owner, tokenId) ==
  keccak256(PadStart(SubSeq(owner, 3, Len(owner)), AddressDigits, "0")
              \o PadStart(BigIntToHex(BigInt(tokenId)), WordDigits, "0"))

\* the byte order of Buffer.compare, on digests: a hex digit by its value, the
\* tag of a digest above every digit
Code(c) == IF c = "keccak256" THEN 16 ELSE DigitVal(c)

\* the first position at which two buffers differ, 0 when one is a prefix of
\* the other
FirstDifference(a, b) ==
  IF \A i \in 1..Min(Len(a), Len(b)) : a[i] = b[i] THEN 0
  ELSE CHOOSE i \in 1..Min(Len(a), Len(b)) :
         a[i] # b[i] /\ \A j \in 1..(i - 1) : a[j] = b[j]

\* Buffer.compare(a, b) <= 0
BufferLeq(a, b) ==
  IF FirstDifference(a, b) = 0 THEN Len(a) <= Len(b)
  ELSE Code(a[FirstDifference(a, b)]) < Code(b[FirstDifference(a, b)])

\* the parent of two nodes, sortPairs: true
Combine(left, right) ==
  keccak256(IF BufferLeq(left, right) THEN left \o right ELSE right \o left)

\* a layer in which an unpaired last node is paired with itself
NextLayerDuplicateOdd(nodes) ==
  [i \in 1..((Len(nodes) + 1) \div 2) |->
     IF 2 * i <= Len(nodes) THEN Combine(nodes[2 * i - 1], nodes[2 * i])
     ELSE Combine(nodes[2 * i - 1], nodes[2 * i - 1])]

\* the layer above `nodes`: adjacent nodes pairwise, an unpaired last node as it is
NextLayer(nodes) ==
  [i \in 1..((Len(nodes) + 1) \div 2) |->
     IF 2 * i <= Len(nodes) THEN Combine(nodes[2 * i - 1], nodes[2 * i])
     ELSE nodes[2 * i - 1]]

RECURSIVE MerkleRoot(_)
\* the root of the tree over `nodes`; of no leaves, the empty buffer
MerkleRoot(nodes) ==
  IF Len(nodes) = 0 THEN <<>>
  ELSE IF Len(nodes) = 1 THEN nodes[1]
  ELSE MerkleRoot(NextLayer(nodes))

RECURSIVE MerkleProof(_, _)
\* the siblings on the path from node i of `nodes` to the root
MerkleProof(nodes, i) ==
  IF Len(nodes) <= 1 THEN <<>>
  ELSE (IF i % 2 = 1
        THEN (IF i + 1 <= Len(nodes) THEN <<nodes[i + 1]>> ELSE <<>>)
        ELSE <<nodes[i - 1]>>)
         \o MerkleProof(NextLayer(nodes), (i + 1) \div 2)

\* "0x" + buffer.toString("hex")
ToHex(buffer) == <<"0", "x">> \o buffer

\* leaves
Leaves(activeOwnership) ==
  [i \in 1..Len(activeOwnership) |->
     createLeaf(activeOwnership[i].owner, activeOwnership[i].tokenId)]

\* merkleTree.getHexRoot()
getHexRoot(leaves) == ToHex(MerkleRoot(leaves))

\* merkleTree.getHexProof(leaf): the proof of the first leaf equal to `leaf`
getHexProof(leaves, leaf) ==
  [k \in 1..Len(MerkleProof(leaves, CHOOSE i \in 1..Len(leaves) :
                                       leaves[i] = leaf /\ \A j \in 1..(i - 1) : leaves[j] # leaf)) |->
     ToHex(MerkleProof(leaves, CHOOSE i \in 1..Len(leaves) :
                                 leaves[i] = leaf /\ \A j \in 1..(i - 1) : leaves[j] # leaf)[k])]

\* ownershipWithProofs: each entry with its leaf and its proof
OwnershipWithProofs(activeOwnership) ==
  [i \in 1..Len(activeOwnership) |->
     [tokenId |-> activeOwnership[i].tokenId, owner |-> activeOwnership[i].owner,
      leaf |-> ToHex(Leaves(activeOwnership)[i]),
      proof |-> getHexProof(Leaves(activeOwnership), Leaves(activeOwnership)[i])]]

\* ------------------------------------------------------------- the database
\* CACHE_TTL_MS, scaled to one tick of the clock (one hour in the source)
CACHE_TTL_MS == 1

\* batchSize of saveSnapshot, scaled (100 rows in the source)
batchSize == 1

\* the tables before any snapshot is saved
EmptyDb == [snapshots |-> <<>>, ownership |-> <<>>]

\* result.rows[0] || null of a query without rows
NoSnapshot == [id |-> 0]

\* WHERE contract_address = ${contractAddress.toLowerCase()} AND network = ${network}
HasKey(s, contractAddress, network) ==
  s.contract_address = ToLowerCase(contractAddress) /\ s.network = network

\* getSnapshot
getSnapshot(d, contractAddress, network) ==
  IF \E i \in 1..Len(d.snapshots) : HasKey(d.snapshots[i], contractAddress, network)
  THEN d.snapshots[CHOOSE i \in 1..Len(d.snapshots) :
                     HasKey(d.snapshots[i], contractAddress, network)]
  ELSE NoSnapshot

\* the orders in which ORDER BY CAST(token_id AS NUMERIC) may return `rows`:
\* rows of equal token_id in any order
NumericOrders(rows) ==
  {[i \in 1..Len(rows) |-> rows[p[i]]] :
     p \in {f \in [1..Len(rows) -> 1..Len(rows)] :
              /\ \A i, j \in 1..Len(rows) : i # j => f[i] # f[j]
              /\ \A i, j \in 1..Len(rows) :
                   i < j => BigInt(rows[f[i]].token_id) <= BigInt(rows[f[j]].token_id)}}

\* getOwnership: what the query may return
getOwnership(d, snapshotId) ==
  NumericOrders(SelectSeq(d.ownership, LAMBDA o : o.snapshot_id = snapshotId))

\* the first statement of saveSnapshot: INSERT ... ON CONFLICT (contract_address,
\* network) DO UPDATE; t is CURRENT_TIMESTAMP; a new row gets an id no row has
upsertSnapshot(d, contractAddress, network, snapshotBlock, merkleRoot, totalNfts, uniqueOwners, t) ==
  IF getSnapshot(d, contractAddress, network) # NoSnapshot
  THEN [d EXCEPT !.snapshots =
          [i \in 1..Len(d.snapshots) |->
             IF HasKey(d.snapshots[i], contractAddress, network)
             THEN [d.snapshots[i] EXCEPT !.snapshot_block = BigIntToString(snapshotBlock),
                                         !.merkle_root = merkleRoot,
                                         !.total_nfts = totalNfts,
                                         !.unique_owners = uniqueOwners,
                                         !.updated_at = t]
             ELSE d.snapshots[i]]]
  ELSE [d EXCEPT !.snapshots =
          Append(@, [id |-> Len(d.snapshots) + 1,
                     contract_address |-> ToLowerCase(contractAddress),
                     network |-> network,
                     snapshot_block |-> BigIntToString(snapshotBlock),
                     merkle_root |-> merkleRoot,
                     total_nfts |-> totalNfts,
                     unique_owners |-> uniqueOwners,
                     created_at |-> t, updated_at |-> t])]

\* a DELETE that removes nothing
deleteNothing(d, snapshotId) == d

\* DELETE FROM ownership WHERE snapshot_id = ${snapshot.id}
deleteOwnership(d, snapshotId) ==
  [d EXCEPT !.ownership = SelectSeq(@, LAMBDA o : o.snapshot_id # snapshotId)]

\* an INSERT that stores every proof as the empty array
insertOwnershipNoProof(d, snapshotId, batch) ==
  [d EXCEPT !.ownership =
     @ \o [j \in 1..Len(batch) |->
             [snapshot_id |-> snapshotId, token_id |-> batch[j].tokenId,
              owner |-> batch[j].owner, leaf |-> batch[j].leaf, proof |-> <<>>]]]

\* INSERT INTO ownership (...) VALUES ..., one row per entry of the batch
insertOwnership(d, snapshotId, batch) ==
  [d EXCEPT !.ownership =
     @ \o [j \in 1..Len(batch) |->
             [snapshot_id |-> snapshotId, token_id |-> batch[j].tokenId,
              owner |-> batch[j].owner, leaf |-> batch[j].leaf, proof |-> batch[j].proof]]]

\* a staleness test that finds every entry stale
isStaleAlways(cachedSnapshot, t) == TRUE

\* Date.now() - new Date(cachedSnapshot.updated_at).getTime() > CACHE_TTL_MS
isStale(cachedSnapshot, t) == t - cachedSnapshot.updated_at > CACHE_TTL_MS

\* -------------------------------------------------------------------- state
VARIABLES
  hypersyncSemaphore,  \* the module-level Semaphore: [current, queue]
  variant,             \* which version of the route runs: "sem", "lim" or "cache"
  head,                \* the upstream's current chain head height
  now,                 \* the wall clock read by Date.now()
  db,                  \* the database: the rows of the tables snapshots and
                       \* ownership
  rq                   \* per request: position, inputs, locals of the handler and
                       \* of the fetch function it runs, its result and response;
                       \* and, as history, whether it sent an upstream request
                       \* (called), how many page queries (queries), how often
                       \* it released the permit (releases),
                       \* why its loop ended (exitBy) and, when the request is
                       \* traced, its upstream requests (calls), the heights it
                       \* was told (heights), the logs its pages delivered
                       \* (received) and the transfers it applied (applied)

vars == <<hypersyncSemaphore, variant, head, now, rq, db>>

Req == 1..NumReq

\* options = {}: both fields undefined, which || and && treat like 0
NoOptions == [maxIterations |-> 0, timeoutMs |-> 0]

NoResult == [kind |-> "none"]

NoResponse == [status |-> 0]

\* the locals of a fetch function before it runs and after it returned
NoLocals ==
  [latestBlock |-> 0, fromBlock |-> 0, hasMore |-> FALSE, iterations |-> 0,
   startTime |-> 0, ownership |-> <<>>, balances |-> <<>>]

\* "cache": the handler's parameters and the locals it keeps across its awaits
\* (cachedSnapshot, and snapshot and i of saveSnapshot); and, as history,
\* whether it sent a statement that writes (wrote) and whether a write of
\* another request to its key ran between its own first and last (overlapped)
NoCache ==
  [contractAddress |-> <<>>, network |-> "testnet", refresh |-> FALSE,
   cachedSnapshot |-> NoSnapshot, snapshot |-> NoSnapshot, i |-> 0,
   wrote |-> FALSE, overlapped |-> FALSE]

IdleRequest(traced) ==
  [pc |-> "idle", caller |-> "none", usingOwnKey |-> FALSE, acquired |-> FALSE,
   tokenType |-> "erc721", opts |-> NoOptions, loc |-> NoLocals,
   result |-> NoResult, resp |-> NoResponse, cache |-> NoCache,
   traced |-> traced, called |-> FALSE, queries |-> 0, releases |-> 0,
   exitBy |-> "none",
   calls |-> <<>>, heights |-> <<>>, received |-> <<>>, applied |-> <<>>]

\* a history with one more entry, when the request is traced
Record(q, history, entry) == IF q.traced THEN Append(history, entry) ELSE history

\* ---------------------------------------------------------------- Semaphore
\* an acquire() that grants whatever the counter is
acquireAlways(sem) == TRUE

\* acquire(): whether a permit is free
acquireGranted(sem) == sem.current < SemaphoreMax

\* an acquire() that counts the refused attempts too
acquireCountsAttempts(sem) == [sem EXCEPT !.current = @ + 1]

\* acquire(): the semaphore afterwards
acquire(sem) == IF acquireGranted(sem) THEN [sem EXCEPT !.current = @ + 1] ELSE sem

\* release(): the queue is never pushed to, so the hand-over branch is dead code
release(sem) ==
  IF Len(sem.queue) > 0 /\ sem.current - 1 < SemaphoreMax
  THEN [current |-> sem.current - 1 + 1, queue |-> Tail(sem.queue)]
  ELSE [sem EXCEPT !.current = @ - 1]

\* ------------------------------------------------------------ the fetch loop
\* const maxIterations = options.maxIterations || 10000
maxIterations(q) ==
  IF q.opts.maxIterations # 0 THEN q.opts.maxIterations ELSE DefaultMaxIterations

\* "sem": if (iterations >= maxIterations) break
LoopBreakSem(q) == q.loc.iterations >= maxIterations(q)

\* "lim": the iteration bound, then the time bound
LoopBreakLim(q, t) ==
  \/ q.loc.iterations >= maxIterations(q)
  \/ (q.opts.timeoutMs # 0 /\ t - q.loc.startTime > q.opts.timeoutMs)

\* "cache" has no bound
LoopBreak(v, q, t) ==
  CASE v = "sem" -> LoopBreakSem(q)
    [] v = "lim" -> LoopBreakLim(q, t)
    [] OTHER -> FALSE

\* "lim": const wasLimited = iterations >= maxIterations || (timeoutMs ? ... : false)
wasLimited(q, t) ==
  \/ q.loc.iterations >= maxIterations(q)
  \/ (IF q.opts.timeoutMs # 0 THEN t - q.loc.startTime > q.opts.timeoutMs ELSE FALSE)

\* what fetchERC721FromHypersync and fetchFromHypersync return
Result721(q) ==
  LET active == ActiveOwnership(q.loc.ownership)
  IN [kind |-> "value", latestBlock |-> q.loc.latestBlock,
      activeOwnership |-> active, uniqueOwnersCount |-> UniqueOwnersCount(active)]

\* what fetchERC20FromHypersync returns
Result20(q) ==
  [kind |-> "value", latestBlock |-> q.loc.latestBlock,
   activeBalances |-> ActiveBalances(q.loc.balances),
   totalSupply |-> BigIntToString(TotalSupply(q.loc.balances)),
   holdersCount |-> Len(ActiveBalances(q.loc.balances))]

\* what fetchERC1155FromHypersync returns
Result1155(q) ==
  LET holdings == Holdings(q.loc.balances)
  IN [kind |-> "value", latestBlock |-> q.loc.latestBlock,
      holdings |-> holdings,
      uniqueOwnersCount |-> Cardinality({holdings[i].address : i \in 1..Len(holdings)}),
      uniqueTokenIdsCount |-> Cardinality({holdings[i].tokenId : i \in 1..Len(holdings)}),
      totalHoldings |-> Len(holdings)]

\* the fields fetchFromHypersync adds to its return value
MerkleFields == {"merkleRoot", "ownershipWithProofs"}

\* the object a fetch function builds around `base`, the fields every version
\* returns; only "lim" adds wasLimited, only "cache" the leaves
ReturnValue(v, q, t, base) ==
  CASE v = "lim" ->
         [f \in DOMAIN base \cup {"wasLimited"} |->
            IF f = "wasLimited" THEN wasLimited(q, t) ELSE base[f]]
    [] v = "cache" ->
         [f \in DOMAIN base \cup MerkleFields |->
            IF f = "ownershipWithProofs" THEN OwnershipWithProofs(base.activeOwnership)
            ELSE IF f = "merkleRoot" THEN getHexRoot(Leaves(base.activeOwnership))
            ELSE base[f]]
    [] OTHER -> base

\* the value a fetch function returns
FetchResult(v, q, t) ==
  ReturnValue(v, q, t, CASE q.tokenType = "erc20" -> Result20(q)
                         [] q.tokenType = "erc1155" -> Result1155(q)
                         [] OTHER -> Result721(q))

\* a fetch function that reports the time of its return as the height
ReturnStamped(v, q, t) ==
  [q EXCEPT !.pc = "returned",
            !.result = [FetchResult(v, q, t) EXCEPT !.latestBlock = t],
            !.loc = NoLocals]

\* the fetch function returns: its locals go out of scope
Return(v, q, t) ==
  [q EXCEPT !.pc = "returned", !.result = FetchResult(v, q, t), !.loc = NoLocals]

\* an error leaves the fetch function
Throw(q, message) ==
  [q EXCEPT !.pc = "threw", !.result = [kind |-> "error", message |-> message],
            !.loc = NoLocals]

\* await getLatestBlock(...): the height request is sent
CallGetLatestBlock(q) ==
  [q EXCEPT !.pc = "height", !.called = TRUE,
            !.calls = Record(q, @, [call |-> "height", from_block |-> 0])]

\* the loop head, up to the next page query or through the return statement
WhileLoop(v, q, t) ==
  IF q.loc.hasMore /\ ~LoopBreak(v, q, t)
  THEN [q EXCEPT !.loc.iterations = IF v = "cache" THEN @ ELSE @ + 1,
                 !.pc = "query",
                 !.called = TRUE,
                 !.queries = @ + 1,
                 !.calls = Record(q, @, [call |-> "query", from_block |-> q.loc.fromBlock])]
  ELSE Return(v,
              [q EXCEPT !.exitBy =
                 IF ~q.loc.hasMore THEN "exhausted"
                 ELSE IF q.loc.iterations >= maxIterations(q) THEN "iterations"
                 ELSE "time"],
              t)

\* getLatestBlock resolved with `height`: the locals are initialised, the loop starts
LoopEntry(v, q, height, t) ==
  WhileLoop(v,
            [q EXCEPT !.loc = [latestBlock |-> height, fromBlock |-> 0, hasMore |-> TRUE,
                               iterations |-> 0,
                               startTime |-> IF v = "lim" THEN t ELSE 0,
                               ownership |-> <<>>, balances |-> <<>>],
                      !.heights = Record(q, @, height)],
            t)

\* a cursor that moves one block on after every response
NextFromBlockStep(fromBlock, response) == fromBlock + 1

\* the cursor after a response
NextFromBlock(fromBlock, response) ==
  IF NextBlockTruthy(response) /\ response.next_block > fromBlock
  THEN response.next_block
  ELSE fromBlock

\* a loop that goes on while a response carries data or a next_block
NextHasMoreWhileData(fromBlock, response) ==
  NextBlockTruthy(response) \/ DataLength(response) > 0

\* a loop that goes on whenever a response carries a next_block, wherever it
\* points
NextHasMoreAnyNextBlock(fromBlock, response) == NextBlockTruthy(response)

\* hasMore after a response: both if statements at the end of the loop body
NextHasMore(fromBlock, response) ==
  /\ NextBlockTruthy(response) /\ response.next_block > fromBlock
  /\ ~(DataLength(response) = 0 /\ ~NextBlockTruthy(response))

\* the logs of a response applied to the ledger of the request's token type
ApplyLogs(q, logs) ==
  CASE q.tokenType = "erc20" -> ApplyERC20(q.loc.balances, logs)
    [] q.tokenType = "erc1155" -> ApplyERC1155(q.loc.balances, logs)
    [] OTHER -> ApplyERC721(q.loc.ownership, logs)

\* a loop body that takes latestBlock from each page response
AfterResponseTracksHeight(v, q, response, t) ==
  LET a == ApplyLogs(q, LogsOf(response))
  IN IF a.threw
     THEN Throw(q, "SyntaxError: Cannot convert to a BigInt")
     ELSE WhileLoop(v,
                    [q EXCEPT !.loc.ownership = IF q.tokenType = "erc721" THEN a.ledger ELSE @,
                              !.loc.balances = IF q.tokenType = "erc721" THEN @ ELSE a.ledger,
                              !.applied = IF q.traced THEN @ \o a.applied ELSE @,
                              !.loc.latestBlock = response.archive_height,
                              !.loc.fromBlock = NextFromBlock(@, response),
                              !.loc.hasMore = NextHasMore(q.loc.fromBlock, response)],
                    t)

\* the rest of the loop body once the logs of `response` went through the
\* ledger with outcome `a`: the error propagates, or the cursor moves and the
\* loop goes on
AfterLogs(v, q, response, t, a) ==
  IF a.threw
  THEN Throw(q, "SyntaxError: Cannot convert to a BigInt")
  ELSE WhileLoop(v,
                 [q EXCEPT !.loc.ownership = IF q.tokenType = "erc721" THEN a.ledger ELSE @,
                           !.loc.balances = IF q.tokenType = "erc721" THEN @ ELSE a.ledger,
                           !.applied = IF q.traced THEN @ \o a.applied ELSE @,
                           !.loc.fromBlock = NextFromBlock(@, response),
                           !.loc.hasMore = NextHasMore(q.loc.fromBlock, response)],
                 t)

\* a page query resolved with `response`: its logs are applied, the cursor moves,
\* the loop goes on
AfterResponse(v, q, response, t) ==
  AfterLogs(v, [q EXCEPT !.received = IF q.traced THEN @ \o LogsOf(response) ELSE @],
            response, t, ApplyLogs(q, LogsOf(response)))

\* ------------------------------------------------------------- the upstream
\* What the log source may answer to a page query from cursor `from` while its
\* head is `hd`: the logs of `logSeq` (all of one block b, from <= b <= hd, and
\* below next_block when that advances), in one data block; or a data block
\* without logs; or no data; each with or without a next_block out of `Nexts`.
\* The query carries no upper block bound (no to_block), so b may exceed the
\* height an earlier height query returned.
UpstreamResponses(from, hd, LogSeqs, Nexts) ==
  LET Stamp(logSeq, b) ==
        [i \in 1..Len(logSeq) |->
           [block |-> b, topic0 |-> logSeq[i].topic0, topic1 |-> logSeq[i].topic1,
            topic2 |-> logSeq[i].topic2, topic3 |-> logSeq[i].topic3,
            data |-> logSeq[i].data]]
      Datas(top) ==
        {<<>>, <<[number |-> from]>>}
          \cup UNION {{<<[logs |-> Stamp(ls, b)]>> : b \in from..top} :
                        ls \in LogSeqs \ {<<>>}}
  IN {[archive_height |-> hd]}
       \cup {[archive_height |-> hd, data |-> d] : d \in Datas(hd)}
       \cup {[archive_height |-> hd, next_block |-> n] : n \in Nexts}
       \cup UNION {{[archive_height |-> hd, data |-> d, next_block |-> n] :
                      d \in Datas(IF n > from THEN Min(hd, n - 1) ELSE hd)} : n \in Nexts}

\* the page queries a traced request has sent
Queries(q) == SelectSeq(q.calls, LAMBDA c : c.call = "query")

\* ------------------------------------------------------------- GET handlers
\* a pattern that every string matches
ContractRegexAny(contractAddress) == TRUE

\* /^0x[a-fA-F0-9]{40}$/.test(contractAddress), with the scaled digit count
ContractRegex(contractAddress) ==
  /\ Len(contractAddress) = 2 + AddressDigits
  /\ contractAddress[1] = "0"
  /\ contractAddress[2] = "x"
  /\ \A i \in 3..Len(contractAddress) : contractAddress[i] \in HexChars

BadRequest(message) == [status |-> 400, error |-> message]

\* the 503 of a request that found the permit taken
Busy ==
  [status |-> 503, error |-> "Someone else is currently using the tool.",
   retryAfter |-> RetryAfter, retryAfterHeader |-> RetryAfter]

\* a catch block that answers with its fallback text
ServerErrorGeneric(message) == [status |-> 500, error |-> "Failed to fetch snapshot"]

\* the catch block: error.message of an Error
ServerError(message) == [status |-> 500, error |-> message]

\* the CSV export of an ERC-721 result: the header row, then one row per entry
Csv721(result) ==
  [status |-> 200, format |-> "csv", header |-> "tokenId,owner",
   rows |-> [i \in 1..Len(result.activeOwnership) |->
               <<result.activeOwnership[i].tokenId, result.activeOwnership[i].owner>>]]

\* a JSON response that carries every entry
Json721Untruncated(result) ==
  [status |-> 200, format |-> "json", tokenType |-> "erc721",
   snapshotBlock |-> result.latestBlock,
   analytics |-> [totalNfts |-> Len(result.activeOwnership),
                  uniqueOwners |-> result.uniqueOwnersCount],
   data |-> result.activeOwnership]

\* the JSON preview of an ERC-721 result
Json721(result) ==
  [status |-> 200, format |-> "json", tokenType |-> "erc721",
   snapshotBlock |-> result.latestBlock,
   analytics |-> [totalNfts |-> Len(result.activeOwnership),
                  uniqueOwners |-> result.uniqueOwnersCount],
   data |-> SliceFirst(result.activeOwnership, MAX_PREVIEW)]

\* the CSV export of an ERC-20 result
Csv20(result) ==
  [status |-> 200, format |-> "csv", header |-> "address,balance",
   rows |-> [i \in 1..Len(result.activeBalances) |->
               <<result.activeBalances[i].address, result.activeBalances[i].balance>>]]

\* the JSON preview of an ERC-20 result
Json20(result) ==
  [status |-> 200, format |-> "json", tokenType |-> "erc20",
   snapshotBlock |-> result.latestBlock,
   analytics |-> [totalSupply |-> result.totalSupply, holders |-> result.holdersCount],
   data |-> SliceFirst(result.activeBalances, MAX_PREVIEW)]

\* the CSV export of an ERC-1155 result
Csv1155(result) ==
  [status |-> 200, format |-> "csv", header |-> "address,tokenId,balance",
   rows |-> [i \in 1..Len(result.holdings) |->
               <<result.holdings[i].address, result.holdings[i].tokenId,
                 result.holdings[i].balance>>]]

\* the JSON preview of an ERC-1155 result
Json1155(result) ==
  [status |-> 200, format |-> "json", tokenType |-> "erc1155",
   snapshotBlock |-> result.latestBlock,
   analytics |-> [totalHoldings |-> result.totalHoldings,
                  uniqueOwners |-> result.uniqueOwnersCount,
                  uniqueTokenIds |-> result.uniqueTokenIdsCount],
   data |-> SliceFirst(result.holdings, MAX_PREVIEW)]

\* the response to a fetch that returned: format === "csv", or the preview
Success(q, format) ==
  CASE q.tokenType = "erc20" -> IF format = "csv" THEN Csv20(q.result) ELSE Json20(q.result)
    [] q.tokenType = "erc1155" ->
         IF format = "csv" THEN Csv1155(q.result) ELSE Json1155(q.result)
    [] OTHER -> IF format = "csv" THEN Csv721(q.result) ELSE Json721(q.result)

\* a handler without the finally block
finallyNoRelease(v, q) == q

\* a finally block that releases whatever key the request used
finallyAlways(v, q) == [q EXCEPT !.releases = @ + 1]

\* the finally block of "sem": if (!usingOwnKey) hypersyncSemaphore.release()
finally(v, q) ==
  IF v = "sem" /\ ~q.usingOwnKey THEN [q EXCEPT !.releases = @ + 1] ELSE q

\* "cache": the handler's locals after a cache hit
CachedLocals(cachedSnapshot, cachedOwnership) ==
  [snapshotBlock |-> BigInt(cachedSnapshot.snapshot_block),
   merkleRoot |-> cachedSnapshot.merkle_root,
   uniqueOwnersCount |-> cachedSnapshot.unique_owners,
   activeOwnership |-> [k \in 1..Len(cachedOwnership) |->
                          [tokenId |-> cachedOwnership[k].token_id,
                           owner |-> cachedOwnership[k].owner]],
   ownershipWithProofs |-> [k \in 1..Len(cachedOwnership) |->
                              [tokenId |-> cachedOwnership[k].token_id,
                               owner |-> cachedOwnership[k].owner,
                               leaf |-> cachedOwnership[k].leaf,
                               proof |-> cachedOwnership[k].proof]],
   fromCache |-> TRUE]

\* "cache": the handler's locals after fetchFromHypersync returned
FetchedLocals(result) ==
  [snapshotBlock |-> result.latestBlock,
   merkleRoot |-> result.merkleRoot,
   uniqueOwnersCount |-> result.uniqueOwnersCount,
   activeOwnership |-> result.activeOwnership,
   ownershipWithProofs |-> result.ownershipWithProofs,
   fromCache |-> FALSE]

\* "cache": the Merkle export
MerkleCache(contractAddress, l) ==
  [status |-> 200, format |-> "merkle", contract |-> contractAddress,
   snapshotBlock |-> l.snapshotBlock, merkleRoot |-> l.merkleRoot,
   totalLeaves |-> Len(l.activeOwnership), leaves |-> l.ownershipWithProofs]

\* "cache": the JSON response, every entry in data
JsonCache(contractAddress, network, l) ==
  [status |-> 200, format |-> "json", contract |-> contractAddress, network |-> network,
   snapshotBlock |-> l.snapshotBlock, merkleRoot |-> l.merkleRoot,
   fromCache |-> l.fromCache,
   analytics |-> [totalNfts |-> Len(l.activeOwnership),
                  uniqueOwners |-> l.uniqueOwnersCount],
   data |-> l.activeOwnership]

\* "cache": format === "csv", format === "merkle", or the JSON response
SuccessCache(q, format, l) ==
  CASE format = "csv" -> Csv721(l)
    [] format = "merkle" -> MerkleCache(q.cache.contractAddress, l)
    [] OTHER -> JsonCache(q.cache.contractAddress, q.cache.network, l)

\* "cache": saveSnapshot is called; its first statement is sent
CallSaveSnapshot(q) == [q EXCEPT !.pc = "upsert"]

\* the rest of the handler once its fetch function returned or threw; a request
\* in any other position, and a direct call of a fetch function, is left as it is
Complete(v, q, format) ==
  IF q.caller = "GET" /\ q.pc \in {"returned", "threw"}
  THEN IF v = "cache" /\ q.pc = "returned"
       THEN CallSaveSnapshot(q)
       ELSE finally(v, [q EXCEPT !.pc = "done",
                                 !.resp = IF q.pc = "threw"
                                          THEN ServerError(q.result.message)
                                          ELSE Success(q, format)])
  ELSE q

\* the handler answers before its try block
Reply(q, response) == [q EXCEPT !.pc = "done", !.resp = response]

\* install request r's new state; each release() its finally block performed
\* is applied to the semaphore
Step(r, q) ==
  /\ rq' = [rq EXCEPT ![r] = q]
  /\ hypersyncSemaphore' =
       IF q.releases > rq[r].releases THEN release(hypersyncSemaphore)
       ELSE hypersyncSemaphore

\* ------------------------------------------------------------------ actions
\* "sem": a request arrives; validation, then acquire() for the shared key or
\* straight into the try block with an own key
GetSem(r, Contracts, Keys, Types) ==
  /\ variant = "sem"
  /\ rq[r].pc = "idle"
  /\ \E contractAddress \in Contracts, userApiKey \in Keys, tokenType \in Types :
       LET q == [rq[r] EXCEPT !.caller = "GET", !.usingOwnKey = Truthy(userApiKey),
                              !.tokenType = tokenType]
       IN IF ~Truthy(contractAddress)
          THEN Step(r, Reply([rq[r] EXCEPT !.caller = "GET"],
                             BadRequest("Missing contract address")))
          ELSE IF ~ContractRegex(contractAddress)
          THEN Step(r, Reply([rq[r] EXCEPT !.caller = "GET"],
                             BadRequest("Invalid contract address format")))
          ELSE IF ~q.usingOwnKey
          THEN /\ rq' = [rq EXCEPT ![r] =
                           [q EXCEPT !.pc = "acquire",
                                     !.acquired = acquireGranted(hypersyncSemaphore)]]
               /\ hypersyncSemaphore' = acquire(hypersyncSemaphore)
          ELSE Step(r, CallGetLatestBlock([q EXCEPT !.acquired = TRUE]))
  /\ UNCHANGED <<variant, head, now, db>>

\* "sem": the await of acquire() resumes: 503, or into the try block
AfterAcquire(r) ==
  /\ rq[r].pc = "acquire"
  /\ IF ~rq[r].acquired
     THEN Step(r, Reply(rq[r], Busy))
     ELSE Step(r, CallGetLatestBlock(rq[r]))
  /\ UNCHANGED <<variant, head, now, db>>

\* "lim": a request arrives; validation, then the try block
GetLim(r, Contracts, Types) ==
  /\ variant = "lim"
  /\ rq[r].pc = "idle"
  /\ \E contractAddress \in Contracts, tokenType \in Types :
       LET q == [rq[r] EXCEPT !.caller = "GET", !.tokenType = tokenType]
       IN IF ~Truthy(contractAddress)
          THEN Step(r, Reply(q, BadRequest("Missing contract address")))
          ELSE IF ~ContractRegex(contractAddress)
          THEN Step(r, Reply(q, BadRequest("Invalid contract address format")))
          ELSE Step(r, CallGetLatestBlock(q))
  /\ UNCHANGED <<variant, head, now, db>>

\* const network = networkParam === "mainnet" ? "mainnet" : "testnet"
NetworkOf(networkParam) == IF networkParam = "mainnet" THEN "mainnet" ELSE "testnet"

\* "cache": a request arrives; validation, then the cache lookup, or with
\* refresh=true straight into fetchFromHypersync
GetCache(r, Contracts, NetworkParams, RefreshParams) ==
  /\ variant = "cache"
  /\ rq[r].pc = "idle"
  /\ \E contractAddress \in Contracts, networkParam \in NetworkParams,
        refreshParam \in RefreshParams :
       LET q == [rq[r] EXCEPT !.caller = "GET",
                              !.cache.contractAddress = contractAddress,
                              !.cache.network = NetworkOf(networkParam),
                              !.cache.refresh = (refreshParam = "true")]
       IN IF ~Truthy(contractAddress)
          THEN Step(r, Reply([rq[r] EXCEPT !.caller = "GET"],
                             BadRequest("Missing contract address")))
          ELSE IF ~ContractRegex(contractAddress)
          THEN Step(r, Reply([rq[r] EXCEPT !.caller = "GET"],
                             BadRequest("Invalid contract address format")))
          ELSE IF ~q.cache.refresh
          THEN Step(r, [q EXCEPT !.pc = "getSnapshot"])
          ELSE Step(r, CallGetLatestBlock(q))
  /\ UNCHANGED <<variant, head, now, db>>

\* cachedSnapshot && !isStale
CacheHit(cachedSnapshot, t) ==
  cachedSnapshot # NoSnapshot
    /\ ~(IF cachedSnapshot # NoSnapshot THEN isStale(cachedSnapshot, t) ELSE FALSE)

\* "cache": getSnapshot answers; on a hit the rows are asked for, else
\* fetchFromHypersync is called
GetSnapshotReturn(r) ==
  /\ rq[r].pc = "getSnapshot"
  /\ LET cachedSnapshot == getSnapshot(db, rq[r].cache.contractAddress, rq[r].cache.network)
     IN IF CacheHit(cachedSnapshot, now)
        THEN Step(r, [rq[r] EXCEPT !.pc = "getOwnership",
                                   !.cache.cachedSnapshot = cachedSnapshot])
        ELSE Step(r, CallGetLatestBlock(
                       [rq[r] EXCEPT !.cache.cachedSnapshot = cachedSnapshot]))
  /\ UNCHANGED <<variant, head, now, db>>

\* "cache": getOwnership answers; the response is built from the cache
GetOwnershipReturn(r, Formats) ==
  /\ rq[r].pc = "getOwnership"
  /\ \E cachedOwnership \in getOwnership(db, rq[r].cache.cachedSnapshot.id),
        format \in Formats :
       Step(r, Reply(rq[r], SuccessCache(rq[r], format,
                                         CachedLocals(rq[r].cache.cachedSnapshot,
                                                      cachedOwnership))))
  /\ UNCHANGED <<variant, head, now, db>>

\* two requests address the same cache entry
SameEntry(p, q) ==
  /\ ToLowerCase(p.cache.contractAddress) = ToLowerCase(q.cache.contractAddress)
  /\ p.cache.network = q.cache.network

\* request r's statement turns the database into d and r goes on as q; the
\* saveSnapshot calls the statement falls into are marked
Write(r, q, d) ==
  /\ db' = d
  /\ rq' = [p \in DOMAIN rq |->
              IF p = r THEN q
              ELSE IF rq[p].pc \in {"delete", "insert"} /\ SameEntry(rq[p], rq[r])
              THEN [rq[p] EXCEPT !.cache.overlapped = TRUE]
              ELSE rq[p]]
  /\ UNCHANGED hypersyncSemaphore

\* saveSnapshot after a statement: the next batch is sent, or it returns and
\* the handler answers
SaveLoop(q, format) ==
  IF q.cache.i < Len(q.result.ownershipWithProofs)
  THEN [q EXCEPT !.pc = "insert"]
  ELSE Reply(q, SuccessCache(q, format, FetchedLocals(q.result)))

\* saveSnapshot: the upsert runs and returns the header row
SaveUpsert(r) ==
  /\ rq[r].pc = "upsert"
  /\ LET q == rq[r]
         d == upsertSnapshot(db, q.cache.contractAddress, q.cache.network,
                             q.result.latestBlock, q.result.merkleRoot,
                             Len(q.result.activeOwnership), q.result.uniqueOwnersCount,
                             now)
     IN Write(r, [q EXCEPT !.pc = "delete", !.cache.wrote = TRUE,
                           !.cache.snapshot =
                              getSnapshot(d, q.cache.contractAddress, q.cache.network)],
              d)
  /\ UNCHANGED <<variant, head, now>>

\* saveSnapshot: the DELETE runs; then the loop over the batches starts
SaveDelete(r, Formats) ==
  /\ rq[r].pc = "delete"
  /\ \E format \in Formats :
       Write(r, SaveLoop([rq[r] EXCEPT !.cache.i = 0], format),
             deleteOwnership(db, rq[r].cache.snapshot.id))
  /\ UNCHANGED <<variant, head, now>>

\* saveSnapshot: the INSERT of one batch runs; i += batchSize
SaveInsert(r, Formats) ==
  /\ rq[r].pc = "insert"
  /\ \E format \in Formats :
       Write(r, SaveLoop([rq[r] EXCEPT !.cache.i = @ + batchSize], format),
             insertOwnership(db, rq[r].cache.snapshot.id,
                             Slice(rq[r].result.ownershipWithProofs, rq[r].cache.i,
                                   rq[r].cache.i + batchSize)))
  /\ UNCHANGED <<variant, head, now>>

\* a statement sent to the database fails: the catch block answers
DbFail(r) ==
  /\ rq[r].pc \in {"getSnapshot", "getOwnership", "upsert", "delete", "insert"}
  /\ Step(r, Reply(rq[r], ServerError("database error")))
  /\ UNCHANGED <<variant, head, now, db>>

\* a fetch function is called on its own, with explicit options
DirectCall(r, Types, MaxIters, Timeouts) ==
  /\ rq[r].pc = "idle"
  /\ \E tokenType \in Types, m \in MaxIters, ms \in Timeouts :
       Step(r, CallGetLatestBlock(
                 [rq[r] EXCEPT !.caller = "direct", !.tokenType = tokenType,
                               !.opts = [maxIterations |-> m, timeoutMs |-> ms]]))
  /\ UNCHANGED <<variant, head, now, db>>

\* the height request is answered with the upstream's head
HeightReturn(r, Formats) ==
  /\ rq[r].pc = "height"
  /\ \E format \in Formats :
       Step(r, Complete(variant, LoopEntry(variant, rq[r], head, now), format))
  /\ UNCHANGED <<variant, head, now, db>>

\* the height request fails: !response.ok, a network error, an unparseable body
HeightFail(r) ==
  /\ rq[r].pc = "height"
  /\ Step(r, Complete(variant, Throw(rq[r], "Failed to get latest block"), "json"))
  /\ UNCHANGED <<variant, head, now, db>>

\* a page query is answered with one of Responses
PageReturn(r, Responses, Formats) ==
  /\ rq[r].pc = "query"
  /\ \E response \in Responses, format \in Formats :
       Step(r, Complete(variant, AfterResponse(variant, rq[r], response, now), format))
  /\ UNCHANGED <<variant, head, now, db>>

\* a page query fails: a non-2xx status, the 30 s abort, an unparseable body
PageFail(r) ==
  /\ rq[r].pc = "query"
  /\ Step(r, Complete(variant, Throw(rq[r], "HyperSync error: 500 - "), "json"))
  /\ UNCHANGED <<variant, head, now, db>>

\* The same page query in the steps of queryHypersync*. The fetch resolves
\* with the response's status line and headers: clearTimeout(timeoutId), and
\* the body is read, response.text() or response.json()
PageHeaders(r) ==
  /\ rq[r].pc = "query"
  /\ Step(r, [rq[r] EXCEPT !.pc = "body"])
  /\ UNCHANGED <<variant, head, now, db>>

\* the timer of 30000 ms fires while the fetch is pending: controller.abort()
PageAbort(r) ==
  /\ rq[r].pc = "query"
  /\ Step(r, Complete(variant,
                      Throw(rq[r], "HyperSync request timed out after 30 seconds"),
                      "json"))
  /\ UNCHANGED <<variant, head, now, db>>

\* response.json() resolves with one of Responses
BodyReturn(r, Responses, Formats) ==
  /\ rq[r].pc = "body"
  /\ \E response \in Responses, format \in Formats :
       Step(r, Complete(variant, AfterResponse(variant, rq[r], response, now), format))
  /\ UNCHANGED <<variant, head, now, db>>

\* !response.ok once response.text() resolved, or the reading of the body fails
BodyFail(r) ==
  /\ rq[r].pc = "body"
  /\ Step(r, Complete(variant, Throw(rq[r], "HyperSync error: 500 - "), "json"))
  /\ UNCHANGED <<variant, head, now, db>>

\* the chain grows
HeadAdvance ==
  /\ head < MaxHead
  /\ head' = head + 1
  /\ UNCHANGED <<hypersyncSemaphore, variant, now, rq, db>>

\* time passes
Tick ==
  /\ now < MaxTime
  /\ now' = now + 1
  /\ UNCHANGED <<hypersyncSemaphore, variant, head, rq, db>>

\* ------------------------------------------------------------------- inputs
\* topics: "0x", padding digits, then the address or the number (widths scaled)
TopicZero == <<"0", "x", "0", "0", "0", "0">>

TopicA == <<"0", "x", "0", "0", "0", "a">>

\* the same address as TopicA, in upper case and with non-zero padding digits
TopicAUpper == <<"0", "x", "f", "f", "0", "A">>

TopicB == <<"0", "x", "0", "0", "0", "b">>

TopicC == <<"0", "x", "0", "0", "0", "c">>

TopicOne == <<"0", "x", "0", "0", "0", "1">>

\* the same number as TopicOne, written shorter
TopicOneShort == <<"0", "x", "1">>

TopicTwo == <<"0", "x", "0", "0", "0", "2">>

\* not a number: BigInt raises on it
TopicBad == <<"0", "x", "z">>

AddrA == parseAddress(TopicA)

AddrB == parseAddress(TopicB)

AddrC == parseAddress(TopicC)

\* a log as the upstream holds it; the field selection of a query decides which
\* fields the code sees, and it reads no others
Log(topic0, topic1, topic2, topic3, data) ==
  [topic0 |-> topic0, topic1 |-> topic1, topic2 |-> topic2, topic3 |-> topic3,
   data |-> data]

ContractValid == <<"0", "x", "c", "0">>

\* missing, too short, not hexadecimal, well-formed
Contracts == {<<>>, <<"0", "x", "c">>, <<"0", "x", "c", "g">>, ContractValid}

\* no apiKey parameter, one's own key
Keys == {<<>>, <<"k">>}

Formats == {"json", "csv"}

\* the token types a version of the route handles
SemTokenTypes == {"erc721", "erc20", "erc1155"}

LimTokenTypes == {"erc721", "erc20"}

TokenTypes(v) ==
  CASE v = "sem" -> SemTokenTypes
    [] v = "lim" -> LimTokenTypes
    [] OTHER -> {"erc721"}

\* the state after the module is loaded: new Semaphore(1), no request yet
InitWith(Variants, traced, hd) ==
  /\ hypersyncSemaphore = [current |-> 0, queue |-> <<>>]
  /\ variant \in Variants
  /\ head = hd
  /\ now = 0
  /\ rq = [r \in Req |-> IdleRequest(traced)]
  /\ db = EmptyDb

\* ------------------------------------------- the admission specification, Spec
\* NumReq concurrent requests to the "sem" route. Its pages carry no log but,
\* for ERC-721, one whose tokenId topic is not a number.
Bad721 == Log(TRANSFER_EVENT_SIGNATURE, TopicZero, TopicA, TopicBad, <<>>)

AdmLogSeqs(tokenType) == IF tokenType = "erc721" THEN {<<Bad721>>} ELSE {}

\* the upstream of the admission specification has MaxAdmPages pages after the
\* first
AdmNexts(from, hd) == IF from < MaxAdmPages THEN {from + 1} ELSE {}

\* each of its pages is one data block; all but the last announce the next
AdmResponses(tokenType, from, hd) ==
  {response \in UpstreamResponses(from, hd, AdmLogSeqs(tokenType), AdmNexts(from, hd)) :
     /\ DataLength(response) > 0
     /\ AdmNexts(from, hd) # {} => "next_block" \in DOMAIN response}

InitAdm == InitWith({"sem"}, FALSE, 1)

NextAdm ==
  \E r \in Req :
    \/ GetSem(r, Contracts, Keys, TokenTypes("sem"))
    \/ AfterAcquire(r)
    \/ HeightReturn(r, Formats)
    \/ HeightFail(r)
    \/ PageReturn(r, AdmResponses(rq[r].tokenType, rq[r].loc.fromBlock, head), Formats)
    \/ PageFail(r)

Spec == InitAdm /\ [][NextAdm]_vars

\* request r holds the permit: acquire() granted it and its finally block has
\* not run
Holding(r) ==
  /\ ~rq[r].usingOwnKey
  /\ rq[r].pc \in {"acquire", "height", "query", "body"}
  /\ rq[r].acquired

\* request r has an upstream request in flight
InFlight(r) == rq[r].pc \in {"height", "query", "body"}

Shared(r) == rq[r].caller = "GET" /\ ~rq[r].usingOwnKey

\* C1 (admission cap): in every reachable state of NumReq concurrent requests at
\* most one shared-credential request is between its granted acquire() and its
\* release(), at most one shared-credential fetch is in flight, and the
\* semaphore's counter is 0 or 1 and counts exactly the holders.
C1_AdmissionCap ==
  /\ Cardinality({r \in Req : Holding(r)}) <= 1
  /\ Cardinality({r \in Req : Shared(r) /\ InFlight(r)}) <= 1
  /\ hypersyncSemaphore.current \in 0..1
  /\ hypersyncSemaphore.current = Cardinality({r \in Req : Holding(r)})

\* one shared request fetches while another shared request, arrived meanwhile,
\* was refused the permit
C1_Witness ==
  \E r1, r2 \in Req :
    /\ r1 # r2
    /\ Holding(r1) /\ rq[r1].pc = "query"
    /\ Shared(r2) /\ rq[r2].pc = "acquire" /\ ~rq[r2].acquired

\* C2 (release on every exit path): a shared-credential request that acquired
\* the permit and has completed (200 JSON, 200 CSV or 500, for any token type)
\* has released it exactly once; no request releases otherwise or more than
\* once; a shared-credential request that has sent an upstream request had
\* acquired the permit before; and once no request holds the permit it is free
\* for the next acquire().
C2_ReleasedOnEveryExit ==
  /\ \A r \in Req :
       /\ (Shared(r) /\ rq[r].acquired /\ rq[r].pc = "done") => rq[r].releases = 1
       /\ rq[r].releases # 0 =>
            (rq[r].releases = 1 /\ Shared(r) /\ rq[r].acquired /\ rq[r].pc = "done")
       /\ (Shared(r) /\ rq[r].called) => rq[r].acquired
       /\ (Shared(r) /\ InFlight(r)) => Holding(r)
  /\ (\A r \in Req : ~Holding(r)) => acquireGranted(hypersyncSemaphore)

\* one shared request ended in a 500 from a decode error, a later one acquired
\* the permit again and ended in a CSV export; both released once
C2_Witness ==
  \E r1, r2 \in Req :
    /\ Shared(r1) /\ rq[r1].pc = "done" /\ rq[r1].resp.status = 500
    /\ rq[r1].resp.error = "SyntaxError: Cannot convert to a BigInt"
    /\ rq[r1].releases = 1
    /\ Shared(r2) /\ rq[r2].pc = "done" /\ rq[r2].resp.status = 200
    /\ rq[r2].resp.format = "csv" /\ rq[r2].tokenType = "erc1155"
    /\ rq[r2].releases = 1
    /\ hypersyncSemaphore.current = 0

\* a step of request r
StepOf(r) == rq'[r] # rq[r]

\* C3 (admission rejection): a shared-credential request that arrives while the
\* permit is held is not granted it and leaves the semaphore as it is; its next
\* step answers 503 with retryAfter 10 in the body and in the Retry-After
\* header, again leaves the semaphore as it is, and the request has sent no
\* upstream request and released nothing; the semaphore's queue stays empty.
C3_Rejection ==
  [][\A r \in Req :
       /\ (StepOf(r) /\ rq'[r].pc = "acquire"
             /\ hypersyncSemaphore.current >= SemaphoreMax) =>
            (~rq'[r].acquired /\ hypersyncSemaphore' = hypersyncSemaphore)
       /\ (StepOf(r) /\ rq[r].pc = "acquire" /\ ~rq[r].acquired) =>
            /\ rq'[r].pc = "done"
            /\ rq'[r].resp.status = 503
            /\ rq'[r].resp.retryAfter = 10
            /\ rq'[r].resp.retryAfterHeader = 10
            /\ ~rq'[r].called
            /\ rq'[r].releases = 0
            /\ hypersyncSemaphore' = hypersyncSemaphore
       /\ hypersyncSemaphore'.queue = <<>>]_vars

\* a shared request was answered 503 while the request holding the permit is
\* still fetching
C3_Witness ==
  \E r1, r2 \in Req :
    /\ Holding(r1) /\ InFlight(r1)
    /\ Shared(r2) /\ rq[r2].pc = "done" /\ rq[r2].resp.status = 503
    /\ hypersyncSemaphore.current = 1

\* C4 (own-credential bypass): no step of a request with a non-empty apiKey
\* changes the semaphore, whatever its counter is; such a request never waits
\* for acquire(), is never answered 503, and releases nothing.
C4_OwnKeyBypass ==
  [][\A r \in Req :
       (StepOf(r) /\ rq'[r].usingOwnKey) =>
         /\ hypersyncSemaphore' = hypersyncSemaphore
         /\ rq'[r].pc # "acquire"
         /\ rq'[r].resp.status # 503
         /\ rq'[r].releases = 0]_vars

\* an own-credential request that arrived while the permit was held fetches
\* alongside the shared-credential fetch
C4_Witness ==
  \E r1, r2 \in Req :
    /\ Holding(r1) /\ rq[r1].pc = "query"
    /\ rq[r2].usingOwnKey /\ rq[r2].pc = "query"
    /\ hypersyncSemaphore.current = 1

\* ---------------------------------------- the fetch specification, SpecFetch
\* One traced request: a fetch function called with explicit options, or a GET
\* of "sem" or "lim"; the chain head advances and the clock ticks in between.
\* a mint of token 1 to A (ERC-721), of 5 units to A (ERC-20), of 3 units of
\* token 7 to A (ERC-1155)
Mint721 == Log(TRANSFER_EVENT_SIGNATURE, TopicZero, TopicA, TopicOne, <<>>)

Mint20 == Log(TRANSFER_EVENT_SIGNATURE, TopicZero, TopicA, <<>>, <<"0", "x", "0", "5">>)

Mint1155 ==
  Log(TRANSFER_SINGLE_SIGNATURE, TopicB, TopicZero, TopicA, <<"0", "x", "0", "7", "0", "3">>)

FetchLogSeqs(tokenType) ==
  CASE tokenType = "erc20" -> {<<Mint20>>}
    [] tokenType = "erc1155" -> {<<Mint1155>>}
    [] OTHER -> {<<Mint721>>}

\* next_block falls behind the cursor, repeats it, or moves it one or two blocks
\* on, at most to the block after the head
FetchNexts(from, hd) == {n \in {from - 1, from, from + 1, from + 2} : 0 <= n /\ n <= hd + 1}

FetchResponses(tokenType, from, hd) ==
  UpstreamResponses(from, hd, FetchLogSeqs(tokenType), FetchNexts(from, hd))

\* the options a version's fetch functions read
MaxIterOpts(v) == IF v = "cache" THEN {0} ELSE 0..MaxIterOpt

TimeoutOpts(v) == IF v = "lim" THEN 0..MaxTimeoutOpt ELSE {0}

InitFetch == InitWith({"sem", "lim", "cache"}, TRUE, 1)

NextFetch ==
  \/ DirectCall(1, TokenTypes(variant), MaxIterOpts(variant), TimeoutOpts(variant))
  \/ GetSem(1, {ContractValid}, Keys, TokenTypes("sem"))
  \/ AfterAcquire(1)
  \/ GetLim(1, {ContractValid}, TokenTypes("lim"))
  \/ HeightReturn(1, Formats)
  \/ HeightFail(1)
  \/ PageReturn(1, FetchResponses(rq[1].tokenType, rq[1].loc.fromBlock, head), Formats)
  \/ PageFail(1)
  \/ HeadAdvance
  \/ Tick

SpecFetch == InitFetch /\ [][NextFetch]_vars

\* the fetch of request r returned a value after its loop was stopped by a bound
\* while the last response still announced a further page
CutShort(r) ==
  /\ rq[r].result.kind = "value"
  /\ rq[r].exitBy \in {"iterations", "time"}

\* C5 (bounded fetch is flagged): whenever the loop of a fetch was stopped by the
\* iteration bound or the time bound while the source still had further pages,
\* the value the fetch function returned has wasLimited = true.
C5_BoundedFetchFlagged ==
  \A r \in Req :
    CutShort(r) =>
      ("wasLimited" \in DOMAIN rq[r].result /\ rq[r].result.wasLimited = TRUE)

\* C7 (observed height is recorded once): a fetch sends exactly one height
\* request, before its first page query; while it pages, its latestBlock is the
\* height that request returned; so is the latestBlock of the value it returns
\* and the snapshotBlock of the JSON response, whatever the head has become.
C7_HeightRecordedOnce ==
  \A r \in Req :
    LET q == rq[r]
    IN /\ q.calls # <<>> =>
            /\ q.calls[1].call = "height"
            /\ \A i \in 2..Len(q.calls) : q.calls[i].call = "query"
       /\ Len(q.heights) <= 1
       /\ q.pc = "query" => (Len(q.heights) = 1 /\ q.loc.latestBlock = q.heights[1])
       /\ q.result.kind = "value" =>
            (Len(q.heights) = 1 /\ q.result.latestBlock = q.heights[1])
       /\ (q.pc = "done" /\ q.resp.status = 200 /\ q.resp.format = "json") =>
            q.resp.snapshotBlock = q.heights[1]

\* a fetch returned after two page queries, stopped by its iteration bound, and
\* the head has moved on since its height request
C7_Witness ==
  \E r \in Req :
    /\ CutShort(r)
    /\ Len(Queries(rq[r])) = 2
    /\ rq[r].heights = <<1>>
    /\ rq[r].result.latestBlock = 1
    /\ head = 2

\* C8 (snapshot height bounds the included events): every transfer a fetch
\* applied to its ledger lies in a block not above the latestBlock of the value
\* it returned, even when the head advanced while it paged.
C8_HeightBoundsEvents ==
  \A r \in Req :
    rq[r].result.kind = "value" =>
      \A i \in 1..Len(rq[r].applied) : rq[r].applied[i].block <= rq[r].result.latestBlock

\* -------------------------------------------- the GET specification, SpecGet
\* One GET of "sem" or "lim" against a chain long enough for the default
\* iteration bound: every page is empty and announces the next block.
GetNexts(from, hd) == {n \in {from + 1} : n <= hd + 1}

GetResponses(tokenType, from, hd) ==
  {response \in UpstreamResponses(from, hd, {}, GetNexts(from, hd)) :
     /\ "data" \in DOMAIN response /\ DataLength(response) = 0
     /\ "next_block" \in DOMAIN response}

InitGet == InitWith({"sem", "lim"}, FALSE, DefaultMaxIterations)

NextGet ==
  \/ GetSem(1, {ContractValid}, {<<>>}, TokenTypes("sem"))
  \/ AfterAcquire(1)
  \/ GetLim(1, {ContractValid}, TokenTypes("lim"))
  \/ HeightReturn(1, Formats)
  \/ PageReturn(1, GetResponses(rq[1].tokenType, rq[1].loc.fromBlock, head), Formats)

SpecGet == InitGet /\ [][NextGet]_vars

\* C6 (partial results are marked in the response): every 200 response, JSON
\* preview or CSV, built from a fetch that a bound cut short carries the marker
\* wasLimited = true.
C6_PartialResponseMarked ==
  \A r \in Req :
    (rq[r].pc = "done" /\ rq[r].resp.status = 200 /\ CutShort(r)) =>
      ("wasLimited" \in DOMAIN rq[r].resp /\ rq[r].resp.wasLimited = TRUE)

\* ----------------------------------- the ledger specification, SpecLedger
\* One traced ERC-721 request per version (a GET of "sem" with an own key, a
\* GET of "lim", a call of the "cache" fetch function) against MaxLedgerPages
\* pages of transfers of tokens 1 and 2.
MintA1 == Log(TRANSFER_EVENT_SIGNATURE, TopicZero, TopicA, TopicOne, <<>>)

AtoB1 == Log(TRANSFER_EVENT_SIGNATURE, TopicA, TopicB, TopicOneShort, <<>>)

BtoC1 == Log(TRANSFER_EVENT_SIGNATURE, TopicB, TopicC, TopicOne, <<>>)

Burn1 == Log(TRANSFER_EVENT_SIGNATURE, TopicC, TopicZero, TopicOne, <<>>)

MintA2 == Log(TRANSFER_EVENT_SIGNATURE, TopicZero, TopicAUpper, TopicTwo, <<>>)

\* a burn of token 2 whose `from` is not its owner
Burn2 == Log(TRANSFER_EVENT_SIGNATURE, TopicB, TopicZero, TopicTwo, <<>>)

\* an ERC-20 style Transfer: no third indexed topic
NoTokenId == Log(TRANSFER_EVENT_SIGNATURE, TopicA, TopicB, <<>>, <<"0", "x", "0", "5">>)

Ledger721LogSeqs ==
  {<<MintA1>>, <<AtoB1, BtoC1>>, <<Burn1>>, <<MintA1, Burn1>>, <<Burn1, MintA1>>,
   <<MintA2>>, <<Burn2, MintA2>>, <<BtoC1, MintA2>>, <<NoTokenId, AtoB1>>,
   <<MintA1, Bad721>>}

LedgerLogSeqs(tokenType) == Ledger721LogSeqs

\* MaxLedgerPages pages, the last one at the head
LedgerNexts(from, hd) == IF from < hd THEN {from + 1} ELSE {}

LedgerResponses(tokenType, from, hd) ==
  {response \in UpstreamResponses(from, hd, LedgerLogSeqs(tokenType), LedgerNexts(from, hd)) :
     LedgerNexts(from, hd) # {} => "next_block" \in DOMAIN response}

InitLedger == InitWith({"sem", "lim", "cache"}, TRUE, MaxLedgerPages - 1)

NextLedger ==
  \/ GetSem(1, {ContractValid}, {<<"k">>}, {"erc721"})
  \/ GetLim(1, {ContractValid}, {"erc721"})
  \/ (variant = "cache" /\ DirectCall(1, {"erc721"}, {0}, {0}))
  \/ HeightReturn(1, Formats)
  \/ PageReturn(1, LedgerResponses(rq[1].tokenType, rq[1].loc.fromBlock, head), Formats)

SpecLedger == InitLedger /\ [][NextLedger]_vars

\* the tokenIds of the transfers a request applied
AppliedTokenIds(q) == {q.applied[i].tokenId : i \in 1..Len(q.applied)}

\* the `to` of the last transfer of tokenId a request applied
LastTo(q, tokenId) ==
  LET last == CHOOSE i \in 1..Len(q.applied) :
                /\ q.applied[i].tokenId = tokenId
                /\ \A j \in (i + 1)..Len(q.applied) : q.applied[j].tokenId # tokenId
  IN q.applied[last].to

\* the tokenIds whose last applied transfer is to the zero address
Burned(q) == {id \in AppliedTokenIds(q) : LastTo(q, id) = ZERO_ADDRESS}

\* the entries that list tokenId
EntriesOf(entries, tokenId) == {i \in 1..Len(entries) : entries[i].tokenId = tokenId}

\* C9 (ERC-721 last writer wins): while a fetch replays, its ledger maps exactly
\* the tokenIds of the transfers applied so far, each to the `to` of the last
\* one applied for it, whatever the `from` topics say; and the value it returns
\* lists a tokenId whose last `to` is not the zero address exactly once, under
\* that `to` (after A->B, B->C under C alone; after a burn and a re-mint under
\* the new owner).
C9_LastWriterWins ==
  \A r \in Req :
    LET q == rq[r]
    IN /\ (q.pc = "query" /\ q.tokenType = "erc721") =>
            /\ SeqRange(MapKeys(q.loc.ownership)) = AppliedTokenIds(q)
            /\ \A id \in AppliedTokenIds(q) : MapGet(q.loc.ownership, id) = LastTo(q, id)
       /\ (q.result.kind = "value" /\ q.tokenType = "erc721") =>
            \A id \in AppliedTokenIds(q) \ Burned(q) :
              /\ Cardinality(EntriesOf(q.result.activeOwnership, id)) = 1
              /\ \A i \in EntriesOf(q.result.activeOwnership, id) :
                   q.result.activeOwnership[i].owner = LastTo(q, id)

\* token 1 went to B and then to C, token 2 was burned and minted again: the
\* value returned lists 1 under C and 2 under A
C9_Witness ==
  \E r \in Req :
    /\ rq[r].result.kind = "value"
    /\ [i \in 1..Len(rq[r].applied) |-> <<rq[r].applied[i].tokenId, rq[r].applied[i].to>>]
         = << <<<<"1">>, AddrB>>, <<<<"1">>, AddrC>>,
              <<<<"2">>, ZERO_ADDRESS>>, <<<<"2">>, AddrA>> >>
    /\ rq[r].result.activeOwnership
         = << [tokenId |-> <<"1">>, owner |-> AddrC], [tokenId |-> <<"2">>, owner |-> AddrA] >>

\* C10 (ERC-721 burn exclusion): a tokenId whose last applied transfer is to the
\* zero address, however many transfers preceded it, is in no entry of the value
\* the fetch returns, in no Merkle leaf, in no CSV row and in no entry of the
\* JSON preview, and totalNfts counts only the tokenIds that are not burned.
C10_BurnExclusion ==
  \A r \in Req :
    LET q == rq[r]
    IN (q.result.kind = "value" /\ q.tokenType = "erc721") =>
         /\ \A id \in Burned(q) : EntriesOf(q.result.activeOwnership, id) = {}
         /\ Len(q.result.activeOwnership) = Cardinality(AppliedTokenIds(q) \ Burned(q))
         /\ "ownershipWithProofs" \in DOMAIN q.result =>
              /\ \A id \in Burned(q) : EntriesOf(q.result.ownershipWithProofs, id) = {}
              /\ \A id \in Burned(q), i \in 1..Len(q.result.ownershipWithProofs) :
                   q.result.ownershipWithProofs[i].leaf
                     # <<"0", "x">> \o createLeaf(ZERO_ADDRESS, id)
         /\ (q.pc = "done" /\ q.resp.status = 200 /\ q.resp.format = "csv") =>
              \A id \in Burned(q), i \in 1..Len(q.resp.rows) : q.resp.rows[i][1] # id
         /\ (q.pc = "done" /\ q.resp.status = 200 /\ q.resp.format = "json") =>
              /\ \A id \in Burned(q) : EntriesOf(q.resp.data, id) = {}
              /\ q.resp.analytics.totalNfts = Cardinality(AppliedTokenIds(q) \ Burned(q))

\* token 1 was transferred twice and then burned, token 2 is held: the CSV
\* export has the row of token 2 only
C10_Witness ==
  \E r \in Req :
    /\ rq[r].pc = "done" /\ rq[r].resp.status = 200 /\ rq[r].resp.format = "csv"
    /\ Cardinality({i \in 1..Len(rq[r].applied) : rq[r].applied[i].tokenId = <<"1">>}) >= 3
    /\ Burned(rq[r]) = {<<"1">>}
    /\ rq[r].resp.rows = << <<<<"2">>, AddrA>> >>

\* ----------------------------------- the replay specification, SpecReplay
\* One traced request per token type (a GET of "sem" with an own key; for
\* ERC-20 also a GET of "lim") against MaxReplayPages pages of transfers, some
\* of them malformed.
\* one ABI word holding n
Word(n) == PadStart(BigIntToHex(n), WordDigits, "0")

\* the payload of an ERC-20 Transfer of n units
Amount(n) == <<"0", "x">> \o Word(n)

E20(from, to, n) == Log(TRANSFER_EVENT_SIGNATURE, from, to, <<>>, Amount(n))

\* the payload of a TransferSingle: id, value
EncodeSingle(id, value) == <<"0", "x">> \o Word(id) \o Word(value)

\* the payload of a TransferBatch: the byte offsets of the two arrays, then each
\* array as its length and its elements
EncodeBatch(ids, values) ==
  <<"0", "x">> \o Word(2) \o Word(3 + Len(ids))
    \o Word(Len(ids)) \o Flatten([i \in 1..Len(ids) |-> Word(ids[i])])
    \o Word(Len(values)) \o Flatten([i \in 1..Len(values) |-> Word(values[i])])

\* ERC-1155 logs; topic1 is the operator
Single1155(from, to, id, value) ==
  Log(TRANSFER_SINGLE_SIGNATURE, TopicC, from, to, EncodeSingle(id, value))

Batch1155(from, to, ids, values) ==
  Log(TRANSFER_BATCH_SIGNATURE, TopicC, from, to, EncodeBatch(ids, values))

\* the zero address with non-zero padding digits
TopicZeroPadded == <<"0", "x", "f", "f", "0", "0">>

TopicNine == <<"0", "x", "0", "0", "0", "9">>

\* the (ids, values) array pairs the batch logs of the pages encode
BatchArrays ==
  {<<<<7, 8>>, <<3, 4>>>>, <<<<7>>, <<3>>>>, <<<<7, 8>>, <<1, 1>>>>, <<<<8, 7>>, <<4, 4>>>>,
   <<<<7, 7>>, <<1, 2>>>>, <<<<7, 8>>, <<3>>>>, <<<<7>>, <<3, 4>>>>, <<<<>>, <<>>>>}

Replay20LogSeqs ==
  {<<E20(TopicZero, TopicA, 5)>>,
   <<E20(TopicZero, TopicB, 5), E20(TopicZeroPadded, TopicAUpper, 5)>>,
   <<E20(TopicZero, TopicC, 3), E20(TopicC, TopicB, 9)>>,
   <<E20(TopicA, TopicB, 2)>>,
   <<E20(TopicA, TopicB, 2), E20(TopicA, TopicAUpper, 1)>>,
   <<E20(TopicZero, TopicAUpper, 4)>>,
   <<E20(TopicA, TopicZero, 5)>>,
   <<E20(TopicZero, TopicZeroPadded, 4)>>,
   <<Log(TRANSFER_EVENT_SIGNATURE, TopicZero, TopicB, <<>>, <<"0", "x">>),
     E20(TopicZero, TopicA, 5)>>,
   <<Log(TRANSFER_EVENT_SIGNATURE, TopicZero, TopicB, <<>>, <<"0", "x", "z", "z">>),
     E20(TopicA, TopicB, 2)>>,
   <<Log(TRANSFER_EVENT_SIGNATURE, TopicZero, <<>>, <<>>, Amount(4)),
     E20(TopicZero, TopicC, 3)>>,
   <<Log(TRANSFER_EVENT_SIGNATURE, TopicA, TopicC, <<>>, <<>>),
     E20(TopicZero, TopicA, 5)>>,
   <<E20(TopicZero, TopicA, 5), E20(TopicA, TopicZero, 5)>>,
   <<E20(TopicZero, TopicC, 3), E20(TopicZero, TopicB, 5)>>}

Replay1155LogSeqs ==
  {<<Single1155(TopicZero, TopicA, 7, 3)>>,
   <<Batch1155(TopicZero, TopicA, <<7, 8>>, <<3, 4>>)>>,
   <<Batch1155(TopicZero, TopicB, <<7>>, <<3>>),
     Batch1155(TopicA, TopicB, <<7, 8>>, <<1, 1>>)>>,
   <<Batch1155(TopicZero, TopicA, <<7, 8>>, <<3>>)>>,
   <<Batch1155(TopicZero, TopicA, <<7>>, <<3, 4>>)>>,
   <<Batch1155(TopicZero, TopicA, <<>>, <<>>), Single1155(TopicZero, TopicB, 8, 4)>>,
   <<Single1155(TopicA, TopicB, 7, 5)>>,
   <<Single1155(TopicA, TopicZero, 7, 3)>>,
   <<Single1155(TopicZero, TopicZeroPadded, 7, 3)>>,
   <<Single1155(TopicA, TopicAUpper, 7, 2)>>,
   <<Log(TRANSFER_SINGLE_SIGNATURE, TopicC, TopicZero, TopicA, <<"0", "x", "0", "7">>),
     Single1155(TopicZero, TopicC, 8, 4)>>,
   <<Log(TRANSFER_EVENT_SIGNATURE, TopicC, TopicZero, TopicA, EncodeSingle(7, 3)),
     Single1155(TopicZero, TopicC, 7, 3)>>,
   <<Log(TRANSFER_SINGLE_SIGNATURE, TopicC, TopicZero, TopicA,
         EncodeSingle(7, 3) \o Word(9)),
     Single1155(TopicZero, TopicB, 8, 4)>>,
   <<Batch1155(TopicZero, TopicC, <<8, 7>>, <<4, 4>>),
     Single1155(TopicZero, TopicB, 7, 4)>>,
   <<Batch1155(TopicZero, TopicA, <<7, 7>>, <<1, 2>>)>>,
   <<Single1155(TopicZero, TopicA, 10, 1), Single1155(TopicZero, TopicB, 9, 2)>>}

Replay721LogSeqs ==
  {<<Log(TRANSFER_EVENT_SIGNATURE, TopicZero, TopicA, TopicA, <<>>)>>,
   <<Log(TRANSFER_EVENT_SIGNATURE, TopicZero, TopicB, TopicNine, <<>>), MintA2>>,
   <<MintA1, Bad721, MintA2>>,
   <<NoTokenId, MintA1>>,
   <<Burn1>>}

ReplayLogSeqs(tokenType) ==
  CASE tokenType = "erc20" -> Replay20LogSeqs
    [] tokenType = "erc1155" -> Replay1155LogSeqs
    [] OTHER -> Replay721LogSeqs

\* MaxReplayPages pages, the last one at the head
ReplayNexts(from, hd) == IF from < hd THEN {from + 1} ELSE {}

ReplayResponses(tokenType, from, hd) ==
  {response \in UpstreamResponses(from, hd, ReplayLogSeqs(tokenType), ReplayNexts(from, hd)) :
     ReplayNexts(from, hd) # {} => "next_block" \in DOMAIN response}

InitReplay == InitWith({"sem", "lim"}, TRUE, MaxReplayPages - 1)

NextReplay ==
  \/ GetSem(1, {ContractValid}, {<<"k">>}, TokenTypes("sem"))
  \/ GetLim(1, {ContractValid}, {"erc20"})
  \/ HeightReturn(1, Formats)
  \/ PageReturn(1, ReplayResponses(rq[1].tokenType, rq[1].loc.fromBlock, head), Formats)

SpecReplay == InitReplay /\ [][NextReplay]_vars

\* the sum of the numbers of a sequence
SumSeq(ns) ==
  LET f[i \in 0..Len(ns)] == IF i = 0 THEN 0 ELSE f[i - 1] + ns[i]
  IN f[Len(ns)]

\* the amounts the applied transfers credit to non-zero recipients, and debit
\* from non-zero senders
Credited(applied) ==
  SumSeq([i \in 1..Len(applied) |->
            IF applied[i].to # ZERO_ADDRESS THEN applied[i].value ELSE 0])

Debited(applied) ==
  SumSeq([i \in 1..Len(applied) |->
            IF applied[i].from # ZERO_ADDRESS THEN applied[i].value ELSE 0])

\* the key of an applied transfer's sender and recipient in the ledger: the
\* address, for ERC-1155 with the tokenId
FromKey(e) == IF "tokenId" \in DOMAIN e THEN <<e.from, e.tokenId>> ELSE <<e.from>>

ToKey(e) == IF "tokenId" \in DOMAIN e THEN <<e.to, e.tokenId>> ELSE <<e.to>>

\* the keys of the non-zero addresses the applied transfers name
LedgerKeys(applied) ==
  {k \in {FromKey(applied[i]) : i \in 1..Len(applied)}
           \cup {ToKey(applied[i]) : i \in 1..Len(applied)} : k[1] # ZERO_ADDRESS}

\* what the applied transfers credit to key k minus what they debit from it
Net(applied, k) ==
  SumSeq([i \in 1..Len(applied) |->
            (IF ToKey(applied[i]) = k THEN applied[i].value ELSE 0)
              - (IF FromKey(applied[i]) = k THEN applied[i].value ELSE 0)])

RECURSIVE NetSum(_, _)
\* the sum of Net over the keys K
NetSum(applied, K) ==
  IF K = {} THEN 0
  ELSE LET k == CHOOSE x \in K : TRUE
       IN Net(applied, k) + NetSum(applied, K \ {k})

\* the keys with a positive replayed balance
PositiveKeys(applied) == {k \in LedgerKeys(applied) : Net(applied, k) > 0}

\* the entries of a returned ERC-20 or ERC-1155 value as (key, balance) pairs
Listed(result) ==
  IF "holdings" \in DOMAIN result
  THEN [i \in 1..Len(result.holdings) |->
          [k |-> <<result.holdings[i].address, result.holdings[i].tokenId>>,
           balance |-> result.holdings[i].balance]]
  ELSE [i \in 1..Len(result.activeBalances) |->
          [k |-> <<result.activeBalances[i].address>>,
           balance |-> result.activeBalances[i].balance]]

\* the sum of the balances a returned value lists
ListedSum(result) ==
  SumSeq([i \in 1..Len(Listed(result)) |-> BigInt(Listed(result)[i].balance)])

\* request r returned an ERC-20 or ERC-1155 value
Finalized(r) == rq[r].result.kind = "value" /\ rq[r].tokenType \in {"erc20", "erc1155"}

\* C11 (closed ledger), as stated: for every applied ERC-20 or ERC-1155 event
\* sequence, the amounts credited to non-zero recipients minus the amounts
\* debited from non-zero senders equal the sum of the finalized positive
\* balances, which for ERC-20 is the reported totalSupply.
C11_ClosedLedger ==
  \A r \in Req :
    Finalized(r) =>
      /\ Credited(rq[r].applied) - Debited(rq[r].applied) = ListedSum(rq[r].result)
      /\ rq[r].tokenType = "erc20" =>
           BigInt(rq[r].result.totalSupply) = Credited(rq[r].applied) - Debited(rq[r].applied)

\* C11 (closed ledger), as the code has it: credits minus debits equal the sum of
\* all replayed balances, negative ones included; the finalized balances sum to
\* the positive ones among them (for ERC-20 the reported totalSupply); so the
\* two sums agree exactly when no replayed balance is negative.
C11_ClosedLedgerOfPositiveBalances ==
  \A r \in Req :
    Finalized(r) =>
      /\ Credited(rq[r].applied) - Debited(rq[r].applied)
           = NetSum(rq[r].applied, LedgerKeys(rq[r].applied))
      /\ ListedSum(rq[r].result) = NetSum(rq[r].applied, PositiveKeys(rq[r].applied))
      /\ rq[r].tokenType = "erc20" =>
           rq[r].result.totalSupply
             = BigIntToString(NetSum(rq[r].applied, PositiveKeys(rq[r].applied)))
      /\ (Credited(rq[r].applied) - Debited(rq[r].applied) = ListedSum(rq[r].result))
           <=> (\A k \in LedgerKeys(rq[r].applied) : Net(rq[r].applied, k) >= 0)

\* mints, a transfer between holders and a burn were applied, no balance is
\* negative, and the ERC-20 value returned reports the remaining supply
C11_Witness ==
  \E r \in Req :
    /\ Finalized(r) /\ rq[r].tokenType = "erc20"
    /\ Debited(rq[r].applied) > 0
    /\ \A k \in LedgerKeys(rq[r].applied) : Net(rq[r].applied, k) >= 0
    /\ \E k \in LedgerKeys(rq[r].applied) : Net(rq[r].applied, k) = 0
    /\ BigInt(rq[r].result.totalSupply) > 0
    /\ BigInt(rq[r].result.totalSupply) = Credited(rq[r].applied) - Debited(rq[r].applied)

\* request r is between two pages of an ERC-20 or ERC-1155 replay
Replaying(r) == rq[r].pc = "query" /\ rq[r].tokenType \in {"erc20", "erc1155"}

\* the ledger of a replaying request as (key, balance) pairs
LedgerEntries(q) ==
  IF q.tokenType = "erc1155"
  THEN UNION {{<<<<q.loc.balances[a].k, q.loc.balances[a].v[j].k>>, q.loc.balances[a].v[j].v>> :
                 j \in 1..Len(q.loc.balances[a].v)} : a \in 1..Len(q.loc.balances)}
  ELSE {<<<<q.loc.balances[a].k>>, q.loc.balances[a].v>> : a \in 1..Len(q.loc.balances)}

\* C12 (reducer rule): while an ERC-20 or ERC-1155 fetch replays, its ledger
\* holds exactly the non-zero addresses (per tokenId for ERC-1155) the applied
\* transfers name, each once, with the amounts credited to it minus the
\* amounts debited from it; so a self-transfer leaves a balance as it was and
\* a balance is negative when debits exceed the credits so far.
C12_ReducerRule ==
  \A r \in Req :
    Replaying(r) =>
      /\ LedgerEntries(rq[r])
           = {<<k, Net(rq[r].applied, k)>> : k \in LedgerKeys(rq[r].applied)}
      /\ Cardinality({rq[r].loc.balances[a].k : a \in 1..Len(rq[r].loc.balances)})
           = Len(rq[r].loc.balances)
      /\ \A i \in 1..Len(rq[r].applied) :
           FromKey(rq[r].applied[i]) = ToKey(rq[r].applied[i]) =>
             \A k \in LedgerKeys(rq[r].applied) :
               Net(SubSeq(rq[r].applied, 1, i), k) = Net(SubSeq(rq[r].applied, 1, i - 1), k)

\* A sent 2 units to B before being credited anything and then 1 unit to
\* itself: its balance is -2, B's is 2
C12_Witness ==
  \E r \in Req :
    /\ Replaying(r) /\ rq[r].tokenType = "erc20"
    /\ Len(rq[r].applied) = 2
    /\ FromKey(rq[r].applied[2]) = ToKey(rq[r].applied[2])
    /\ LedgerEntries(rq[r]) = {<<<<AddrA>>, 0 - 2>>, <<<<AddrB>>, 2>>}

\* C13 (finalization filter): a returned ERC-20 or ERC-1155 value lists exactly
\* the (address[, tokenId]) whose replayed balance is strictly positive, each
\* once and with that balance, none of them at the zero address; what is at 0
\* or below is left out; holdersCount and totalHoldings count the listed ones.
C13_FinalizationFilter ==
  \A r \in Req :
    Finalized(r) =>
      /\ {<<Listed(rq[r].result)[i].k, Listed(rq[r].result)[i].balance>> :
            i \in 1..Len(Listed(rq[r].result))}
           = {<<k, BigIntToString(Net(rq[r].applied, k))>> : k \in PositiveKeys(rq[r].applied)}
      /\ Len(Listed(rq[r].result)) = Cardinality(PositiveKeys(rq[r].applied))
      /\ \A i \in 1..Len(Listed(rq[r].result)) :
           /\ Listed(rq[r].result)[i].k[1] # ZERO_ADDRESS
           /\ BigInt(Listed(rq[r].result)[i].balance) > 0
      /\ rq[r].tokenType = "erc20" =>
           rq[r].result.holdersCount = Cardinality(PositiveKeys(rq[r].applied))
      /\ rq[r].tokenType = "erc1155" =>
           rq[r].result.totalHoldings = Cardinality(PositiveKeys(rq[r].applied))

\* one address ended at 0, one below 0, one above: only the last is listed
C13_Witness ==
  \E r \in Req :
    /\ Finalized(r)
    /\ \E k \in LedgerKeys(rq[r].applied) : Net(rq[r].applied, k) = 0
    /\ \E k \in LedgerKeys(rq[r].applied) : Net(rq[r].applied, k) < 0
    /\ Len(Listed(rq[r].result)) = 1
    /\ BigInt(Listed(rq[r].result)[1].balance) > 0

\* C14 (the zero address never accumulates balance): at every point of an
\* ERC-20 or ERC-1155 replay the ledger has no entry for the zero address,
\* whatever mints and burns were applied, and no returned value lists it.
C14_ZeroAddressHoldsNothing ==
  \A r \in Req :
    /\ Replaying(r) =>
         \A a \in 1..Len(rq[r].loc.balances) : rq[r].loc.balances[a].k # ZERO_ADDRESS
    /\ Finalized(r) =>
         \A i \in 1..Len(Listed(rq[r].result)) : Listed(rq[r].result)[i].k[1] # ZERO_ADDRESS

\* a mint and a burn were applied and the replay goes on
C14_Witness ==
  \E r \in Req :
    /\ Replaying(r)
    /\ \E i \in 1..Len(rq[r].applied) :
         rq[r].applied[i].from = ZERO_ADDRESS /\ rq[r].applied[i].to # ZERO_ADDRESS
    /\ \E i \in 1..Len(rq[r].applied) :
         rq[r].applied[i].to = ZERO_ADDRESS /\ rq[r].applied[i].from # ZERO_ADDRESS

\* the least number of a non-empty set of numbers
Least(S) == CHOOSE n \in S : \A m \in S : n <= m

\* when the ERC-20 replay first put address a into its Map: at the debit or at
\* the credit half of the first applied transfer that names it
InsertedAt(applied, a) ==
  Least({2 * i : i \in {j \in 1..Len(applied) : applied[j].from = a}}
          \cup {2 * i + 1 : i \in {j \in 1..Len(applied) : applied[j].to = a}})

\* when the ERC-20 replay first credited address a
CreditedAt(applied, a) == Least({i \in 1..Len(applied) : applied[i].to = a})

\* the entries of a returned ERC-721 value ascend strictly by numeric tokenId
Ascending721(result) ==
  \A i, j \in 1..Len(result.activeOwnership) :
    i < j => BigInt(result.activeOwnership[i].tokenId) < BigInt(result.activeOwnership[j].tokenId)

\* the entries of a returned ERC-1155 value ascend by numeric tokenId and,
\* within a tokenId, do not increase in balance
Ordered1155(result) ==
  \A i, j \in 1..Len(result.holdings) :
    i < j =>
      /\ BigInt(result.holdings[i].tokenId) <= BigInt(result.holdings[j].tokenId)
      /\ result.holdings[i].tokenId = result.holdings[j].tokenId =>
           BigInt(result.holdings[i].balance) >= BigInt(result.holdings[j].balance)

\* the entries of a returned ERC-20 value do not increase in balance
Descending20(result) ==
  \A i, j \in 1..Len(result.activeBalances) :
    i < j => BigInt(result.activeBalances[i].balance) >= BigInt(result.activeBalances[j].balance)

\* the pairs of positions of a returned ERC-20 value that list equal balances
Ties20(result) ==
  {p \in (1..Len(result.activeBalances)) \X (1..Len(result.activeBalances)) :
     /\ p[1] < p[2]
     /\ result.activeBalances[p[1]].balance = result.activeBalances[p[2]].balance}

\* C15 (output ordering), as stated: ERC-721 entries ascend strictly by numeric
\* tokenId; ERC-20 entries do not increase in balance and entries of equal
\* balance are in the order in which their addresses were first credited;
\* ERC-1155 entries ascend by numeric tokenId and within one tokenId do not
\* increase in balance.
C15_OutputOrdering ==
  \A r \in Req :
    rq[r].result.kind = "value" =>
      CASE rq[r].tokenType = "erc20" ->
             /\ Descending20(rq[r].result)
             /\ \A p \in Ties20(rq[r].result) :
                  CreditedAt(rq[r].applied, rq[r].result.activeBalances[p[1]].address)
                    < CreditedAt(rq[r].applied, rq[r].result.activeBalances[p[2]].address)
        [] rq[r].tokenType = "erc1155" -> Ordered1155(rq[r].result)
        [] OTHER -> Ascending721(rq[r].result)

\* C15 (output ordering), as the code has it: the same, with entries of equal
\* ERC-20 balance in the order in which their addresses entered the Map, which
\* is at the first transfer that names the address as sender or as recipient.
C15_OutputOrderingByInsertion ==
  \A r \in Req :
    rq[r].result.kind = "value" =>
      CASE rq[r].tokenType = "erc20" ->
             /\ Descending20(rq[r].result)
             /\ \A p \in Ties20(rq[r].result) :
                  InsertedAt(rq[r].applied, rq[r].result.activeBalances[p[1]].address)
                    < InsertedAt(rq[r].applied, rq[r].result.activeBalances[p[2]].address)
        [] rq[r].tokenType = "erc1155" -> Ordered1155(rq[r].result)
        [] OTHER -> Ascending721(rq[r].result)

\* A sent 2 units to B and was credited 4 afterwards: both hold 2, and A, which
\* entered the Map first but was credited last, is listed first
C15_Witness ==
  \E r \in Req :
    /\ rq[r].result.kind = "value" /\ rq[r].tokenType = "erc20"
    /\ rq[r].result.activeBalances
         = <<[address |-> AddrA, balance |-> <<"2">>], [address |-> AddrB, balance |-> <<"2">>]>>
    /\ CreditedAt(rq[r].applied, AddrB) < CreditedAt(rq[r].applied, AddrA)
    /\ InsertedAt(rq[r].applied, AddrA) < InsertedAt(rq[r].applied, AddrB)

\* the transfers a delivered ERC-1155 log encodes: for a TransferBatch whose
\* payload encodes two arrays of common length N >= 1, the N pairs; for a
\* TransferSingle whose payload starts with the words of (id, value), that
\* pair; nothing otherwise
Encoded(log) ==
  IF log.topic0 = TRANSFER_BATCH_SIGNATURE
       /\ \E b \in BatchArrays : log.data = EncodeBatch(b[1], b[2])
  THEN LET b == CHOOSE c \in BatchArrays : log.data = EncodeBatch(c[1], c[2])
       IN IF Len(b[1]) = Len(b[2])
          THEN [i \in 1..Len(b[1]) |->
                  [from |-> parseAddress(log.topic2), to |-> parseAddress(log.topic3),
                   tokenId |-> BigIntToString(b[1][i]), value |-> b[2][i]]]
          ELSE <<>>
  ELSE IF log.topic0 = TRANSFER_SINGLE_SIGNATURE
            /\ \E id, value \in 0..15 :
                 SliceFirst(log.data, 2 + 2 * WordDigits) = EncodeSingle(id, value)
  THEN LET c == CHOOSE c \in (0..15) \X (0..15) :
                  SliceFirst(log.data, 2 + 2 * WordDigits) = EncodeSingle(c[1], c[2])
       IN <<[from |-> parseAddress(log.topic2), to |-> parseAddress(log.topic3),
             tokenId |-> BigIntToString(c[1]), value |-> c[2]]>>
  ELSE <<>>

\* C16 (ERC-1155 batch decode): the transfers an ERC-1155 fetch has applied are,
\* log by log in delivery order, those the delivered logs encode: N transfers
\* (ids[i], values[i]) with the log's from and to for a TransferBatch of two
\* arrays of common length N >= 1, none for one whose array lengths differ or
\* are 0; and the ledger holds the balances of exactly these transfers.
C16_BatchDecode ==
  \A r \in Req :
    rq[r].tokenType = "erc1155" =>
      /\ [i \in 1..Len(rq[r].applied) |->
            [from |-> rq[r].applied[i].from, to |-> rq[r].applied[i].to,
             tokenId |-> rq[r].applied[i].tokenId, value |-> rq[r].applied[i].value]]
           = Flatten([i \in 1..Len(rq[r].received) |-> Encoded(rq[r].received[i])])
      /\ Replaying(r) =>
           LedgerEntries(rq[r])
             = {<<k, Net(Flatten([i \in 1..Len(rq[r].received) |-> Encoded(rq[r].received[i])]), k)>> :
                  k \in LedgerKeys(Flatten([i \in 1..Len(rq[r].received) |->
                                              Encoded(rq[r].received[i])]))}

\* a batch of (7, 3) and (8, 4) and a batch whose arrays have lengths 2 and 1
\* were delivered: the two transfers of the first were applied, nothing else
C16_Witness ==
  \E r \in Req :
    /\ rq[r].result.kind = "value" /\ rq[r].tokenType = "erc1155"
    /\ [i \in 1..Len(rq[r].received) |-> rq[r].received[i].data]
         = <<EncodeBatch(<<7, 8>>, <<3, 4>>), EncodeBatch(<<7, 8>>, <<3>>)>>
    /\ [i \in 1..Len(rq[r].applied) |-> <<rq[r].applied[i].tokenId, rq[r].applied[i].value>>]
         = << <<<<"7">>, 3>>, <<<<"8">>, 4>> >>
    /\ Len(rq[r].result.holdings) = 2

\* a delivered log the replay of its token type has to apply: the topics it
\* reads are present and, for ERC-20 and ERC-1155, its payload decodes
WellFormed(tokenType, log) ==
  CASE tokenType = "erc20" ->
         Truthy(log.topic1) /\ Truthy(log.topic2) /\ ~parseValue(log.data).null
    [] tokenType = "erc1155" ->
         Truthy(log.topic2) /\ Truthy(log.topic3) /\ Truthy(log.data) /\ Encoded(log) # <<>>
    [] OTHER -> Truthy(log.topic2) /\ Truthy(log.topic3) /\ ~BigIntThrows(log.topic3)

\* C17 (malformed entries never abort a replay): no fetch ends with an error and
\* no request with a 500 because of a log entry, and of the logs delivered so
\* far every well-formed one has been applied, those after a malformed entry
\* included.
C17_MalformedNeverAborts ==
  \A r \in Req :
    /\ rq[r].result.kind # "error"
    /\ rq[r].resp.status # 500
    /\ \A i \in 1..Len(rq[r].received) :
         WellFormed(rq[r].tokenType, rq[r].received[i]) =>
           \E j \in 1..Len(rq[r].applied) :
             /\ rq[r].applied[j].to
                  = parseAddress(IF rq[r].tokenType = "erc1155" THEN rq[r].received[i].topic3
                                 ELSE rq[r].received[i].topic2)
             /\ rq[r].applied[j].block = rq[r].received[i].block

\* ------------------------------------------- the cache specification, SpecCache
\* Two concurrent requests to the "cache" route for one contract: the first
\* with any contract parameter, network, refresh and format, the second for the
\* testnet entry of the contract, written in upper case, as JSON; against
\* MaxCachePages pages that mint token 1, token 2 or nothing, while time passes
\* (until an entry written at the start can be stale) and any upstream query or
\* database statement may fail. And one request to
\* "sem" and to "lim" whose upstream queries may fail, with a second request to
\* "sem" whose contract parameter is missing or malformed.
ContractUpper == <<"0", "x", "C", "0">>

FirstContracts == {<<>>, <<"0", "x", "c">>, ContractValid}

CacheContracts(r) == IF r = 1 THEN FirstContracts ELSE {ContractUpper}

\* no network parameter, network=mainnet
FirstNetworkParams == {"none", "mainnet"}

NetworkParams(r) == IF r = 1 THEN FirstNetworkParams ELSE {"none"}

\* no refresh parameter, refresh=true
RefreshParams == {"none", "true"}

AllFormats == {"json", "csv", "merkle"}

CacheFormats(r) == IF r = 1 THEN AllFormats ELSE {"json"}

CacheReq == {1, 2}

\* the first page may hold the mint of token 1, a later one that of token 2
CacheLogSeqs(from) == IF from = 0 THEN {<<MintA1>>} ELSE {<<MintA2>>}

CacheNexts(from, hd) == IF from < hd THEN {from + 1} ELSE {}

CacheResponses(v, tokenType, from, hd) ==
  IF v = "cache"
  THEN {response \in UpstreamResponses(from, hd, CacheLogSeqs(from), CacheNexts(from, hd)) :
          /\ CacheNexts(from, hd) # {} => "next_block" \in DOMAIN response
          /\ "data" \in DOMAIN response
          /\ response.data # <<>> => "logs" \in DOMAIN response.data[1]}
  ELSE ReplayResponses(tokenType, from, hd)

InitCache == InitWith({"sem", "lim", "cache"}, TRUE, MaxCachePages - 1)

NextCache ==
  \/ GetSem(1, Contracts, Keys, TokenTypes("sem"))
  \/ GetSem(2, Contracts \ {ContractValid}, Keys, {"erc721"})
  \/ AfterAcquire(1)
  \/ GetLim(1, Contracts, TokenTypes("lim"))
  \/ \E r \in CacheReq :
       \/ GetCache(r, CacheContracts(r), NetworkParams(r), RefreshParams)
       \/ GetSnapshotReturn(r)
       \/ GetOwnershipReturn(r, CacheFormats(r))
       \/ HeightReturn(r, Formats)
       \/ HeightFail(r)
       \/ PageReturn(r, CacheResponses(variant, rq[r].tokenType, rq[r].loc.fromBlock, head),
                     Formats)
       \/ PageFail(r)
       \/ SaveUpsert(r)
       \/ SaveDelete(r, CacheFormats(r))
       \/ SaveInsert(r, CacheFormats(r))
       \/ DbFail(r)
  \/ (now <= CACHE_TTL_MS /\ Tick)

SpecCache == InitCache /\ [][NextCache]_vars
\* an upstream query of request r fails in this step
UpstreamFails(r) == HeightFail(r) \/ PageFail(r)

\* the message of the error the failing query function throws
FailureMessage(q) ==
  IF q.pc = "height" THEN "Failed to get latest block" ELSE "HyperSync error: 500 - "

\* C18: when the height query or a page query of a request fails, the request
\* ends at once with a 500 whose body is the failure message and nothing else
\* (no entries, no analytics), the database is left as it was and the request
\* has written nothing to it; and a request that has ended sends no further
\* query: it takes no further step.
C18_UpstreamFailureAborts ==
  [][\A r \in Req :
       /\ UpstreamFails(r) =>
            /\ rq'[r].pc = "done"
            /\ rq'[r].resp = [status |-> 500, error |-> FailureMessage(rq[r])]
            /\ db' = db
            /\ ~rq'[r].cache.wrote
       /\ rq[r].pc = "done" => rq'[r] = rq[r]]_vars

\* a request to "cache" failed on a page query after it had applied a transfer
\* of an earlier page, while the cache holds an entry for its key
C18_Witness ==
  \E r \in Req :
    /\ variant = "cache"
    /\ rq[r].pc = "done"
    /\ rq[r].resp = [status |-> 500, error |-> "HyperSync error: 500 - "]
    /\ Len(rq[r].applied) > 0
    /\ Len(Queries(rq[r])) = 2
    /\ getSnapshot(db, rq[r].cache.contractAddress, rq[r].cache.network) # NoSnapshot

\* the header of the entry request r asks for, as the database holds it now
HeaderOf(r) == getSnapshot(db, rq[r].cache.contractAddress, rq[r].cache.network)

\* the entry request r asks for was updated less than the staleness threshold ago
Fresh(r) == HeaderOf(r) # NoSnapshot /\ now - HeaderOf(r).updated_at < CACHE_TTL_MS

\* the (tokenId, owner) pairs of the child rows of header id
RowsOf(d, id) ==
  {[tokenId |-> d.ownership[k].token_id, owner |-> d.ownership[k].owner] :
     k \in {k \in 1..Len(d.ownership) : d.ownership[k].snapshot_id = id}}

\* C19: a request without refresh=true whose lookup finds a header updated less
\* than the threshold ago goes on to read the child rows, and is then answered
\* 200 from the header and rows the database holds (in the JSON response with
\* fromCache = true; the CSV and Merkle exports carry no such field), without
\* having sent an upstream query and without any change to the database.
C19_FreshCacheHit ==
  [][\A r \in CacheReq :
       /\ (GetSnapshotReturn(r) /\ Fresh(r)) =>
            /\ rq'[r].pc = "getOwnership"
            /\ rq'[r].cache.cachedSnapshot = HeaderOf(r)
            /\ ~rq'[r].called
            /\ db' = db
       /\ GetOwnershipReturn(r, CacheFormats(r)) =>
            /\ rq'[r].pc = "done"
            /\ rq'[r].resp.status = 200
            /\ rq'[r].resp.format = "json" =>
                 /\ rq'[r].resp.fromCache = TRUE
                 /\ rq'[r].resp.merkleRoot = rq[r].cache.cachedSnapshot.merkle_root
                 /\ {rq'[r].resp.data[k] : k \in 1..Len(rq'[r].resp.data)}
                      = RowsOf(db, rq[r].cache.cachedSnapshot.id)
            /\ ~rq'[r].called
            /\ ~rq'[r].cache.wrote
            /\ db' = db]_vars

\* a request was answered from a cache entry with a row, as JSON
C19_Witness ==
  \E r \in CacheReq :
    /\ variant = "cache"
    /\ rq[r].pc = "done"
    /\ ~rq[r].cache.refresh
    /\ rq[r].resp.status = 200
    /\ rq[r].resp.format = "json"
    /\ rq[r].resp.fromCache
    /\ Len(rq[r].resp.data) > 0
    /\ ~rq[r].called

\* the lookup of request r finds no entry, or one older than the threshold
Missing(r) == HeaderOf(r) = NoSnapshot \/ now - HeaderOf(r).updated_at > CACHE_TTL_MS

\* saveSnapshot of request r returns in this step and the handler answers
SaveReturns(r) ==
  rq[r].pc \in {"delete", "insert"} /\ rq'[r].pc = "done" /\ rq'[r].resp.status = 200

\* header and child rows of request r's entry are, in database d, those of
\* the snapshot r computed
EntryIsSnapshot(d, q) ==
  LET header == getSnapshot(d, q.cache.contractAddress, q.cache.network)
  IN /\ header # NoSnapshot
     /\ header.snapshot_block = BigIntToString(q.result.latestBlock)
     /\ header.merkle_root = q.result.merkleRoot
     /\ header.total_nfts = Len(q.result.activeOwnership)
     /\ header.unique_owners = q.result.uniqueOwnersCount
     /\ SelectSeq(d.ownership, LAMBDA o : o.snapshot_id = header.id)
          = [k \in 1..Len(q.result.ownershipWithProofs) |->
               [snapshot_id |-> header.id,
                token_id |-> q.result.ownershipWithProofs[k].tokenId,
                owner |-> q.result.ownershipWithProofs[k].owner,
                leaf |-> q.result.ownershipWithProofs[k].leaf,
                proof |-> q.result.ownershipWithProofs[k].proof]]

\* a request with refresh=true, and one whose lookup finds no entry or a stale
\* one, starts the upstream fetch; and its JSON response has fromCache = false
FullFetch(r) ==
  /\ (rq[r].pc = "idle" /\ rq'[r].pc # "idle" /\ rq'[r].cache.refresh) =>
       (rq'[r].pc = "height" /\ rq'[r].called)
  /\ (GetSnapshotReturn(r) /\ Missing(r)) => (rq'[r].pc = "height" /\ rq'[r].called)
  /\ (SaveReturns(r) /\ rq'[r].resp.format = "json") => rq'[r].resp.fromCache = FALSE

Malformed ==
  {c \in Contracts \cup CacheContracts(1) :
     ~(/\ Len(c) = AddressDigits + 2
       /\ SubSeq(c, 1, 2) = <<"0", "x">>
       /\ \A i \in 3..Len(c) : c[i] \in HexChars)}

\* request r arrives in this step with a missing or malformed contract parameter
ArrivesMalformed(r) ==
  \/ GetSem(r, Malformed, Keys, TokenTypes("sem"))
  \/ GetLim(r, Malformed, TokenTypes("lim"))
  \/ GetCache(r, Malformed, NetworkParams(1), RefreshParams)

\* C21: a request whose contract parameter is missing or malformed is answered
\* 400 in the step in which it arrives: the semaphore is as it was (no acquire,
\* whoever holds the permit), the request has sent no upstream query, has read
\* nothing from the cache (it holds no header) and written nothing, and the
\* database is as it was.
C21_ValidationFirst ==
  [][\A r \in Req :
       ArrivesMalformed(r) =>
         /\ rq'[r].pc = "done"
         /\ rq'[r].resp.status = 400
         /\ hypersyncSemaphore' = hypersyncSemaphore
         /\ ~rq'[r].acquired
         /\ rq'[r].releases = 0
         /\ ~rq'[r].called
         /\ rq'[r].calls = <<>>
         /\ rq'[r].cache = NoCache
         /\ db' = db]_vars

\* a request was answered 400 while another request held the permit, its
\* upstream query in flight
C21_Witness ==
  \E r, h \in Req :
    /\ r # h
    /\ variant = "sem"
    /\ rq[r].pc = "done"
    /\ rq[r].resp.status = 400
    /\ Holding(h)
    /\ InFlight(h)
    /\ hypersyncSemaphore.current = SemaphoreMax

\* ----------------------------------------- the Merkle specification, SpecMerkle
\* One request to "cache" with refresh=true whose single page mints any of the
\* tokens 1..MaxMerkleLeaves, the odd ones to A and the even ones to B; the
\* snapshot is built, saved and answered in any format.
TokenTopic(n) == <<"0", "x", "0", "0", "0", HexChar(n)>>

MerkleMint(n) ==
  Log(TRANSFER_EVENT_SIGNATURE, TopicZero, IF n % 2 = 1 THEN TopicA ELSE TopicB,
      TokenTopic(n), <<>>)

\* the mints of the tokens of S, in ascending order
MerkleMints(S) ==
  LET tokens == SelectSeq([n \in 1..MaxMerkleLeaves |-> n], LAMBDA n : n \in S)
  IN [k \in 1..Len(tokens) |-> MerkleMint(tokens[k])]

MerkleLogSeqs == {MerkleMints(S) : S \in SUBSET (1..MaxMerkleLeaves)}

MerkleResponses(from, hd) == UpstreamResponses(from, hd, MerkleLogSeqs, {})

InitMerkle == InitWith({"cache"}, TRUE, 0)

NextMerkle ==
  \/ GetCache(1, {ContractValid}, {"none"}, {"true"})
  \/ HeightReturn(1, Formats)
  \/ PageReturn(1, MerkleResponses(rq[1].loc.fromBlock, head), Formats)
  \/ SaveUpsert(1)
  \/ SaveDelete(1, CacheFormats(1))
  \/ SaveInsert(1, CacheFormats(1))

SpecMerkle == InitMerkle /\ [][NextMerkle]_vars

\* the bytes a "0x" hex string stands for
FromHex(h) == SubSeq(h, 3, Len(h))

RECURSIVE FoldProof(_, _)
\* the node reached from `node` by combining it, as a sorted pair, with each
\* element of `proof` in turn
FoldProof(node, proof) ==
  IF proof = <<>> THEN node
  ELSE FoldProof(Combine(node, FromHex(proof[1])), Tail(proof))

\* request r has built a snapshot
Built(r) == variant = "cache" /\ rq[r].caller = "GET" /\ rq[r].result.kind = "value"

\* C22: in a freshly built snapshot entry i of the leaves is entry i of the
\* listed entries, its leaf is the hash of that entry's owner and tokenId, and
\* folding the leaf through its proof by sorted-pair combination gives the
\* reported merkleRoot; the Merkle export reports that root and those leaves,
\* and its totalLeaves is the number of leaves it lists.
C22_MerkleProofSound ==
  \A r \in Req :
    Built(r) =>
      LET res == rq[r].result
      IN /\ Len(res.ownershipWithProofs) = Len(res.activeOwnership)
         /\ \A i \in 1..Len(res.ownershipWithProofs) :
              /\ res.ownershipWithProofs[i].tokenId = res.activeOwnership[i].tokenId
              /\ res.ownershipWithProofs[i].owner = res.activeOwnership[i].owner
              /\ res.ownershipWithProofs[i].leaf
                   = ToHex(createLeaf(res.activeOwnership[i].owner,
                                      res.activeOwnership[i].tokenId))
              /\ ToHex(FoldProof(FromHex(res.ownershipWithProofs[i].leaf),
                                 res.ownershipWithProofs[i].proof)) = res.merkleRoot
         /\ (rq[r].pc = "done" /\ rq[r].resp.format = "merkle") =>
              /\ rq[r].resp.merkleRoot = res.merkleRoot
              /\ rq[r].resp.leaves = res.ownershipWithProofs
              /\ rq[r].resp.totalLeaves = Len(rq[r].resp.leaves)

\* a Merkle export of MaxMerkleLeaves leaves in which a node was promoted
\* unpaired: two of its proofs differ in length
C22_Witness ==
  \E r \in Req :
    /\ Built(r)
    /\ rq[r].pc = "done"
    /\ rq[r].resp.format = "merkle"
    /\ rq[r].resp.totalLeaves = MaxMerkleLeaves
    /\ \E i, j \in 1..Len(rq[r].resp.leaves) :
         Len(rq[r].resp.leaves[i].proof) < Len(rq[r].resp.leaves[j].proof)

\* --------------------------------------------- the twin specification, SpecTwin
\* Two traced calls of the fetch function of one version, of any token type it
\* handles, each replaying MaxTwinPages pages drawn from the same pages, while
\* time passes.
TwinReq == {1, 2}

Twin20LogSeqs ==
  {<<E20(TopicZero, TopicA, 2)>>, <<E20(TopicZero, TopicB, 2)>>,
   <<E20(TopicA, TopicB, 1), E20(TopicZero, TopicA, 1)>>}

Twin1155LogSeqs ==
  {<<Single1155(TopicZero, TopicA, 7, 2)>>, <<Single1155(TopicZero, TopicB, 7, 2)>>,
   <<Batch1155(TopicA, TopicB, <<7, 8>>, <<1, 1>>)>>}

Twin721LogSeqs ==
  {<<MintA1>>, <<MintA2, AtoB1>>, <<MintA1, Bad721>>}

TwinLogSeqs(tokenType) ==
  CASE tokenType = "erc20" -> Twin20LogSeqs
    [] tokenType = "erc1155" -> Twin1155LogSeqs
    [] OTHER -> Twin721LogSeqs

TwinNexts(from, hd) == IF from < hd THEN {from + 1} ELSE {}

TwinResponses(tokenType, from, hd) ==
  {response \in UpstreamResponses(from, hd, TwinLogSeqs(tokenType), TwinNexts(from, hd)) :
     /\ TwinNexts(from, hd) # {} => "next_block" \in DOMAIN response
     /\ "data" \in DOMAIN response
     /\ response.data # <<>> => "logs" \in DOMAIN response.data[1]}

InitTwin == InitWith({"sem", "lim", "cache"}, TRUE, MaxTwinPages - 1)

NextTwin ==
  \/ \E r \in TwinReq :
       \/ DirectCall(r, TokenTypes(variant), {0}, {0})
       \/ HeightReturn(r, Formats)
       \/ PageReturn(r, TwinResponses(rq[r].tokenType, rq[r].loc.fromBlock, head), Formats)
  \/ Tick

SpecTwin == InitTwin /\ [][NextTwin]_vars

\* the call of request r has ended
Ended(r) == rq[r].caller = "direct" /\ rq[r].pc \in {"returned", "threw"}

\* the logs a request was delivered, without the block they are stamped with
Delivered(q) ==
  [k \in 1..Len(q.received) |->
     [topic0 |-> q.received[k].topic0, topic1 |-> q.received[k].topic1,
      topic2 |-> q.received[k].topic2, topic3 |-> q.received[k].topic3,
      data |-> q.received[k].data]]

Ledger(q) == IF q.tokenType = "erc721" THEN q.loc.ownership ELSE q.loc.balances

\* C24: the first page query of a fetch has cursor 0; a page query that follows
\* a response has that response's next_block as its cursor, and when it is
\* sent every log of the response has gone through the ledger; a request sends
\* one query at a time, and a page query only in the step in which its height
\* query or its previous page query was answered.
C24_CursorSequencing ==
  [][\A r \in Req :
       /\ (rq[r].pc = "height" /\ rq'[r].pc = "query") =>
            rq'[r].calls = Append(rq[r].calls, [call |-> "query", from_block |-> 0])
       /\ \A response \in FetchResponses(rq[r].tokenType, rq[r].loc.fromBlock, head) :
            (PageReturn(r, {response}, Formats) /\ rq'[r].pc = "query") =>
              /\ "next_block" \in DOMAIN response
              /\ rq'[r].calls =
                   Append(rq[r].calls, [call |-> "query", from_block |-> response.next_block])
              /\ rq'[r].received = rq[r].received \o LogsOf(response)
              /\ Ledger(rq'[r]) = ApplyLogs(rq[r], LogsOf(response)).ledger
       /\ Len(rq'[r].calls) <= Len(rq[r].calls) + 1
       /\ (Len(rq'[r].calls) > Len(rq[r].calls) /\ rq'[r].pc = "query") =>
            rq[r].pc \in {"height", "query"}]_vars

\* a fetch whose third page query follows a jump of the cursor by two blocks,
\* after two logs were applied
C24_Witness ==
  \E r \in Req :
    /\ Len(Queries(rq[r])) = 3
    /\ Queries(rq[r])[1].from_block = 0
    /\ Queries(rq[r])[2].from_block = 2
    /\ Queries(rq[r])[3].from_block = 3
    /\ Len(rq[r].applied) >= 2

\* a response with neither a next_block nor data
NoFurtherPages(response) ==
  /\ ~("next_block" \in DOMAIN response /\ response.next_block # 0)
  /\ ~("data" \in DOMAIN response /\ Len(response.data) > 0)

\* a response without a next_block beyond the cursor
NoAdvance(q, response) ==
  ~("next_block" \in DOMAIN response /\ response.next_block > q.loc.fromBlock)

\* the iteration bound of request q is hit, in the versions that have one
IterationBoundHit(q) ==
  /\ variant # "cache"
  /\ q.loc.iterations >= (IF q.opts.maxIterations = 0 THEN DefaultMaxIterations
                          ELSE q.opts.maxIterations)

\* the time bound of request q is hit, in the version that has one
TimeBoundHit(q) ==
  variant = "lim" /\ q.opts.timeoutMs # 0 /\ now - q.loc.startTime > q.opts.timeoutMs

\* request r applies `response` in this step without an error
Pages(r, response) ==
  PageReturn(r, {response}, Formats) /\ rq'[r].result.kind # "error"

\* C25 as stated: after a response the loop stops exactly when the response
\* has neither next_block nor data, or the iteration bound is hit, or the time
\* bound is hit; in every other case another page query is sent.
C25_TerminationConditions ==
  [][\A r \in Req :
       \A response \in FetchResponses(rq[r].tokenType, rq[r].loc.fromBlock, head) :
         Pages(r, response) =>
           (rq'[r].pc # "query"
              <=> (NoFurtherPages(response) \/ IterationBoundHit(rq[r])
                     \/ TimeBoundHit(rq[r])))]_vars

\* C25, amended: after a response the loop stops exactly when the response has
\* no next_block beyond the cursor (whether or not it carries data), or the
\* iteration bound is hit, or the time bound is hit; in every other case
\* another page query is sent.
C25_TerminationByCursor ==
  [][\A r \in Req :
       \A response \in FetchResponses(rq[r].tokenType, rq[r].loc.fromBlock, head) :
         Pages(r, response) =>
           (rq'[r].pc # "query"
              <=> (NoAdvance(rq[r], response) \/ IterationBoundHit(rq[r])
                     \/ TimeBoundHit(rq[r])))]_vars

\* a fetch without an explicit bound ended after its first page, which carried
\* a log
C25_Witness ==
  \E r \in Req :
    /\ rq[r].exitBy = "exhausted"
    /\ rq[r].opts = NoOptions
    /\ Len(Queries(rq[r])) = 1
    /\ Len(rq[r].received) > 0

\* the child rows of header id, in table order
ChildRows(d, id) == SelectSeq(d.ownership, LAMBDA o : o.snapshot_id = id)

\* the child rows of a header are not the snapshot the header describes: their
\* number is not its total_nfts, or the root over their leaves not its merkle_root
Partial(d, header) ==
  \/ Len(ChildRows(d, header.id)) # header.total_nfts
  \/ getHexRoot([k \in 1..Len(ChildRows(d, header.id)) |->
                   createLeaf(ChildRows(d, header.id)[k].owner,
                              ChildRows(d, header.id)[k].token_id)])
       # header.merkle_root

\* a saveSnapshot for the entry request r asks for was interrupted by a failed
\* statement after its first, no saveSnapshot for it is under way, and its
\* child rows are partial
Interrupted(r) ==
  /\ \E p \in CacheReq :
       /\ rq[p].pc = "done"
       /\ rq[p].resp.status = 500
       /\ rq[p].cache.wrote
       /\ SameEntry(rq[p], rq[r])
  /\ \A p \in CacheReq :
       SameEntry(rq[p], rq[r]) => rq[p].pc \notin {"upsert", "delete", "insert"}
  /\ HeaderOf(r) # NoSnapshot
  /\ Partial(db, HeaderOf(r))

\* C26: when a saveSnapshot was interrupted after its header upsert and left
\* the entry with missing or partial child rows, the lookup of the next request
\* without refresh=true for that entry leads to an upstream fetch, not to a
\* response from the cache.
C26_InterruptedWriteHarmless ==
  [][\A r \in CacheReq :
       (GetSnapshotReturn(r) /\ Interrupted(r)) => rq'[r].pc = "height"]_vars

\* the saveSnapshot call of request r has returned
Saved(r) == rq[r].pc = "done" /\ rq[r].resp.status = 200 /\ rq[r].cache.wrote

\* C27: when every saveSnapshot call made so far for an entry has returned
\* (none is under way and none failed), header and child rows of the entry are
\* those of one of the calls: the rows are exactly the entries of the call
\* whose values the header stores, none left from another snapshot and none
\* twice.
C27_FullReplace ==
  \A r \in CacheReq :
    (/\ Saved(r)
     /\ \A p \in CacheReq :
          (rq[p].caller = "GET" /\ SameEntry(rq[p], rq[r])) =>
            /\ rq[p].pc \notin {"upsert", "delete", "insert"}
            /\ rq[p].cache.wrote => Saved(p))
      => \E p \in CacheReq :
           Saved(p) /\ SameEntry(rq[p], rq[r]) /\ EntryIsSnapshot(db, rq[p])
\* ---------------------------------------- the paging specification, SpecPage
\* One call of the ERC-721 fetch function of each version, with the
\* iteration bounds 0..MaxIterOpt where the version takes one, against a source
\* whose every response is empty and announces the next block, for MaxStream
\* pages: more than any iteration bound of the model.
MaxStream == DefaultMaxIterations + 1

PageNexts(from, hd) == IF from < MaxStream THEN {from + 1} ELSE {}

PageResponses(from, hd) ==
  {response \in UpstreamResponses(from, hd, {}, PageNexts(from, hd)) :
     /\ "data" \in DOMAIN response /\ DataLength(response) = 0
     /\ "next_block" \in DOMAIN response}

InitPage == InitWith({"sem", "lim", "cache"}, FALSE, 0)

NextPage ==
  \/ DirectCall(1, {"erc721"}, MaxIterOpts(variant), {0})
  \/ HeightReturn(1, {"json"})
  \/ PageReturn(1, PageResponses(rq[1].loc.fromBlock, head), {"json"})

SpecPage == InitPage /\ [][NextPage]_vars

\* C28 (bounded pagination): against a source whose next_block always
\* advances every fetch ends: none sends a page query beyond the MaxStream
\* responses of the source; and a fetch of a version with an iteration bound
\* sends at most maxIterations page queries, 10000 when the option is 0.
C28_BoundedPagination ==
  \A r \in Req :
    /\ rq[r].queries <= MaxStream
    /\ variant \in {"sem", "lim"} => rq[r].queries <= maxIterations(rq[r])

\* ------------------------------------- the liveness specification, SpecLive
\* NumReq requests to the "sem" route with the shared key or an own key, each
\* page query in the steps of queryHypersync*, against MaxLivePages pages after
\* the first. The handler's own continuation runs and an armed timer fires;
\* nothing obliges the upstream to answer.
MaxLivePages == 1

LiveNexts(from, hd) == IF from < MaxLivePages THEN {from + 1} ELSE {}

LiveResponses(from, hd) ==
  {response \in UpstreamResponses(from, hd, {}, LiveNexts(from, hd)) :
     /\ "data" \in DOMAIN response /\ DataLength(response) = 0
     /\ LiveNexts(from, hd) # {} => "next_block" \in DOMAIN response}

InitLive == InitWith({"sem"}, FALSE, 1)

NextLive ==
  \E r \in Req :
    \/ GetSem(r, {ContractValid}, Keys, TokenTypes("sem"))
    \/ AfterAcquire(r)
    \/ HeightReturn(r, {"json"})
    \/ HeightFail(r)
    \/ PageHeaders(r)
    \/ PageAbort(r)
    \/ BodyReturn(r, LiveResponses(rq[r].loc.fromBlock, head), {"json"})
    \/ BodyFail(r)

SpecLive ==
  /\ InitLive
  /\ [][NextLive]_vars
  /\ \A r \in Req : WF_vars(AfterAcquire(r)) /\ WF_vars(PageAbort(r))

\* C29 (no permanent starvation): a request that holds the permit eventually
\* releases it, whatever the upstream does with the height query, the page
\* queries and their bodies; so a taken permit is eventually free again for a
\* later request with the shared key.
C29_NoStarvation ==
  /\ \A r \in Req : Holding(r) ~> ~Holding(r)
  /\ (hypersyncSemaphore.current >= SemaphoreMax)
       ~> (hypersyncSemaphore.current < SemaphoreMax)

\* an entry the replay of its token type drops for its payload or signature: an
\* ERC-20 log whose amount is empty, "0x" or no number; an ERC-1155 log whose
\* topic0 is neither transfer signature or whose payload does not decode
Dropped(tokenType, log) ==
  CASE tokenType = "erc20" ->
         ~Truthy(log.data) \/ log.data = <<"0", "x">> \/ BigIntThrows(log.data)
    [] tokenType = "erc1155" ->
         \/ log.topic0 \notin {TRANSFER_SINGLE_SIGNATURE, TRANSFER_BATCH_SIGNATURE}
         \/ log.topic0 = TRANSFER_SINGLE_SIGNATURE /\ parseTransferSingleData(log.data).null
         \/ log.topic0 = TRANSFER_BATCH_SIGNATURE /\ parseTransferBatchData(log.data).null
    [] OTHER -> FALSE

\* the logs of a sequence that are not dropped, in their order
Kept(tokenType, logs) == SelectSeq(logs, LAMBDA log : ~Dropped(tokenType, log))

\* the replay of `logs` from an empty ledger
Replayed(tokenType, logs) ==
  IF tokenType = "erc20" THEN ApplyERC20(<<>>, logs) ELSE ApplyERC1155(<<>>, logs)

\* C30 (a dropped entry changes nothing): the ERC-20 or ERC-1155 ledger of a
\* fetch in its loop is the ledger the delivered logs without the dropped ones
\* lead to, and the transfers applied are theirs: a dropped entry applies no
\* debit and no credit, and the logs after it are processed.
C30_DroppedEntryChangesNothing ==
  \A r \in Req :
    rq[r].tokenType \in {"erc20", "erc1155"} =>
      /\ rq[r].applied
           = Replayed(rq[r].tokenType, Kept(rq[r].tokenType, rq[r].received)).applied
      /\ rq[r].pc = "query" =>
           rq[r].loc.balances
             = Replayed(rq[r].tokenType, Kept(rq[r].tokenType, rq[r].received)).ledger

\* a fetch in its loop was delivered a dropped entry and, after it, an entry it
\* applied
C30_Witness ==
  \E r \in Req :
    /\ rq[r].tokenType \in {"erc20", "erc1155"}
    /\ rq[r].pc = "query"
    /\ rq[r].loc.balances # <<>>
    /\ \E i \in 1..Len(rq[r].received) :
         /\ Dropped(rq[r].tokenType, rq[r].received[i])
         /\ \E j \in (i + 1)..Len(rq[r].received) :
              ~Dropped(rq[r].tokenType, rq[r].received[j])
    /\ rq[r].applied # <<>>

\* a payload of exactly two words after its "0x", each a number: tokenId, amount
TwoWords(data) ==
  /\ Len(data) = 2 + 2 * WordDigits
  /\ \A k \in 3..Len(data) : data[k] \in HexChars

\* a payload that starts with two words, each a number
StartsWithTwoWords(data) ==
  Len(data) >= 2 + 2 * WordDigits /\ TwoWords(SubSeq(data, 1, 2 + 2 * WordDigits))

\* the transfer the first two words of a TransferSingle log's payload stand for
SingleTransfer(log) ==
  [from |-> parseAddress(log.topic2), to |-> parseAddress(log.topic3),
   tokenId |-> BigIntToString(HexValue(SubSeq(log.data, 3, 2 + WordDigits))),
   value |-> HexValue(SubSeq(log.data, 3 + WordDigits, 2 + 2 * WordDigits)),
   block |-> log.block]

\* request r replays ERC-1155 and every log it was delivered is a TransferSingle
\* with from and to
SinglesOnly(r) ==
  /\ rq[r].tokenType = "erc1155"
  /\ \A i \in 1..Len(rq[r].received) :
       /\ rq[r].received[i].topic0 = TRANSFER_SINGLE_SIGNATURE
       /\ Truthy(rq[r].received[i].topic2) /\ Truthy(rq[r].received[i].topic3)

\* C31 as stated: a TransferSingle log is applied exactly when its payload is
\* two 32-byte words (tokenId, amount); a shorter or a longer payload applies
\* no transfer.
C31_SinglePayloadShape ==
  \A r \in Req :
    SinglesOnly(r) =>
      rq[r].applied
        = Flatten([i \in 1..Len(rq[r].received) |->
                     IF TwoWords(rq[r].received[i].data)
                     THEN <<SingleTransfer(rq[r].received[i])>> ELSE <<>>])

\* C31, amended: a TransferSingle log is applied exactly when its payload
\* starts with two 32-byte words (tokenId, amount), whatever follows them; a
\* shorter payload applies no transfer.
C31_SinglePayloadPrefix ==
  \A r \in Req :
    SinglesOnly(r) =>
      rq[r].applied
        = Flatten([i \in 1..Len(rq[r].received) |->
                     IF StartsWithTwoWords(rq[r].received[i].data)
                     THEN <<SingleTransfer(rq[r].received[i])>> ELSE <<>>])

\* a TransferSingle of three words and one of one word were delivered: the
\* first was applied with its first two words, and one log was not applied
C31_Witness ==
  \E r \in Req :
    /\ SinglesOnly(r)
    /\ \E i, j \in 1..Len(rq[r].received) :
         /\ Len(rq[r].received[i].data) > 2 + 2 * WordDigits
         /\ Len(rq[r].received[j].data) < 2 + 2 * WordDigits
         /\ \E k \in 1..Len(rq[r].applied) :
              rq[r].applied[k] = SingleTransfer(rq[r].received[i])
    /\ Len(rq[r].applied) = Len(rq[r].received) - 1

\* C32 (wasLimited implies a bound cut the fetch short): whenever a fetch
\* returns wasLimited = true, its loop was stopped by the iteration bound or the
\* time bound while hasMore still held; a fetch whose loop ended because the
\* source was exhausted, after however many page queries, returns wasLimited =
\* false.
C32_LimitedImpliesCutShort ==
  \A r \in Req :
    (/\ rq[r].result.kind = "value"
     /\ "wasLimited" \in DOMAIN rq[r].result
     /\ rq[r].result.wasLimited = TRUE)
      => CutShort(r)

\* request r was answered from the cache, as JSON
ServedFromCache(r) ==
  /\ variant = "cache"
  /\ rq[r].pc = "done"
  /\ rq[r].resp.status = 200
  /\ rq[r].resp.format = "json"
  /\ rq[r].resp.fromCache = TRUE

\* the response of request r carries the values of the snapshot request p
\* computed
CarriesSnapshotOf(r, p) ==
  /\ rq[p].result.kind = "value"
  /\ rq[r].resp.merkleRoot = rq[p].result.merkleRoot
  /\ rq[r].resp.snapshotBlock = rq[p].result.latestBlock
  /\ rq[r].resp.analytics.uniqueOwners = rq[p].result.uniqueOwnersCount
  /\ rq[r].resp.data = rq[p].result.activeOwnership

\* C33 (no torn cache read): every response served with fromCache = true, under
\* any interleaving with requests that write the cache, carries the merkleRoot,
\* snapshotBlock, uniqueOwners and entries of one and the same computed
\* snapshot.
C33_NoTornRead ==
  \A r \in CacheReq :
    ServedFromCache(r) => \E p \in CacheReq : CarriesSnapshotOf(r, p)

\* ------------------------------------ the round-trip specification, SpecTrip
\* A request to the "cache" route that fetches any subset of the tokens
\* 1..MaxTripLeaves and saves the snapshot; once it is answered, a second
\* request without refresh for the same address in either letter case, in any
\* format, while time passes until the entry is stale.
TripLogSeqs == {MerkleMints(S) : S \in SUBSET (1..MaxTripLeaves)}

TripResponses(from, hd) == UpstreamResponses(from, hd, TripLogSeqs, {})

TripContracts == {ContractValid, ContractUpper}

InitTrip == InitWith({"cache"}, TRUE, 0)

NextTrip ==
  \/ GetCache(1, {ContractValid}, {"none"}, RefreshParams)
  \/ (rq[1].pc = "done" /\ GetCache(2, TripContracts, {"none"}, {"none"}))
  \/ \E r \in CacheReq :
       \/ GetSnapshotReturn(r)
       \/ GetOwnershipReturn(r, AllFormats)
       \/ HeightReturn(r, Formats)
       \/ PageReturn(r, TripResponses(rq[r].loc.fromBlock, head), Formats)
       \/ SaveUpsert(r)
       \/ SaveDelete(r, AllFormats)
       \/ SaveInsert(r, AllFormats)
  \/ Tick

SpecTrip == InitTrip /\ [][NextTrip]_vars

\* request p fetched, saved its snapshot and was answered
FreshlySaved(p) == Saved(p) /\ rq[p].called

\* the response to request r, in its format, of a handler whose locals are
\* those of the fetch of request p, marked as coming from the cache
SameAsFresh(r, p, resp) ==
  resp = SuccessCache(rq[r], resp.format,
                      [FetchedLocals(rq[p].result) EXCEPT !.fromCache = TRUE])

\* C34 (cache round trip): once a fetch for (contract, network) has saved its
\* snapshot and was answered, the lookup of a request without refresh for the
\* same address in any letter case, at most CACHE_TTL_MS after the save, is a
\* hit, and the answer built from the rows carries the snapshotBlock,
\* merkleRoot, unique-owner count, entries, leaves and proofs of the fresh
\* fetch, in its order.
C34_CacheRoundTrip ==
  [][\A r, p \in CacheReq :
       (p # r /\ FreshlySaved(p) /\ SameEntry(rq[r], rq[p])) =>
         /\ (GetSnapshotReturn(r) /\ now - HeaderOf(r).updated_at <= CACHE_TTL_MS) =>
              rq'[r].pc = "getOwnership"
         /\ GetOwnershipReturn(r, AllFormats) =>
              /\ rq'[r].pc = "done"
              /\ rq'[r].resp.status = 200
              /\ SameAsFresh(r, p, rq'[r].resp)]_vars

\* a snapshot of three tokens was saved and then served from the cache as a
\* Merkle export to a request that wrote the address in upper case
C34_Witness ==
  \E r, p \in CacheReq :
    /\ p # r /\ FreshlySaved(p) /\ SameEntry(rq[r], rq[p])
    /\ rq[r].cache.contractAddress # rq[p].cache.contractAddress
    /\ rq[r].pc = "done" /\ ~rq[r].called
    /\ rq[r].resp.status = 200 /\ rq[r].resp.format = "merkle"
    /\ rq[r].resp.totalLeaves = MaxTripLeaves
    /\ \E k \in 1..MaxTripLeaves : rq[r].resp.leaves[k].proof # <<>>

\* ------------------------------------------------------------- C35
\* the cursors of the page queries request q has sent, in the order sent
Cursors(q) == [i \in 1..Len(Queries(q)) |-> Queries(q)[i].from_block]

\* each element of the sequence is greater than the one before it
StrictlyIncreasing(seq) == \A i \in 2..Len(seq) : seq[i] > seq[i - 1]

\* C35: within one fetch the cursor of each page query is strictly greater
\* than that of the query before it, so no cursor is queried twice; a response
\* whose next_block is absent, zero or not beyond the current cursor, applied
\* without an error, ends the loop in the step in which its logs went through
\* the ledger, and no further query is sent.
C35_CursorStrictlyIncreases ==
  [][\A r \in Req :
       /\ StrictlyIncreasing(Cursors(rq'[r]))
       /\ \A response \in FetchResponses(rq[r].tokenType, rq[r].loc.fromBlock, head) :
            (Pages(r, response) /\ NoAdvance(rq[r], response)) =>
              /\ rq'[r].pc # "query"
              /\ Queries(rq'[r]) = Queries(rq[r])
              /\ rq'[r].received = rq[r].received \o LogsOf(response)
              /\ rq'[r].applied = rq[r].applied \o ApplyLogs(rq[r], LogsOf(response)).applied]_vars

\* a fetch that sent its second page query after a jump of two blocks and
\* ended on the response to it, which did not move the cursor on and whose log
\* was applied
C35_Witness ==
  \E r \in Req :
    /\ rq[r].exitBy = "exhausted"
    /\ Cursors(rq[r]) = <<0, 2>>
    /\ Len(rq[r].applied) > 0
    /\ rq[r].applied[Len(rq[r].applied)].block >= 2

\* ------------------------------------------------------------- C36
\* the owner addresses among the entries
OwnersOf(entries) == {entries[i].owner : i \in 1..Len(entries)}

\* C36: in the value an ERC-721 fetch returns no two entries have the same
\* tokenId and no entry has the zero address as owner, and uniqueOwnersCount is
\* the number of distinct owner addresses among the entries; in the JSON
\* response built from it totalNfts is the number of entries and uniqueOwners
\* that number of distinct owners.
C36_SnapshotConsistency ==
  \A r \in Req :
    LET q == rq[r]
    IN (q.result.kind = "value" /\ q.tokenType = "erc721") =>
         /\ \A i, j \in 1..Len(q.result.activeOwnership) :
              i # j => q.result.activeOwnership[i].tokenId # q.result.activeOwnership[j].tokenId
         /\ ZERO_ADDRESS \notin OwnersOf(q.result.activeOwnership)
         /\ q.result.uniqueOwnersCount = Cardinality(OwnersOf(q.result.activeOwnership))
         /\ (q.pc = "done" /\ q.resp.status = 200 /\ q.resp.format = "json") =>
              /\ q.resp.analytics.totalNfts = Len(q.result.activeOwnership)
              /\ q.resp.analytics.uniqueOwners = Cardinality(OwnersOf(q.result.activeOwnership))

\* tokens 1 and 2 went to the same owner and a burn was applied: the JSON
\* response counts two NFTs and one owner
C36_Witness ==
  \E r \in Req :
    /\ rq[r].pc = "done" /\ rq[r].resp.status = 200 /\ rq[r].resp.format = "json"
    /\ rq[r].tokenType = "erc721"
    /\ \E i \in 1..Len(rq[r].applied) : rq[r].applied[i].to = ZERO_ADDRESS
    /\ rq[r].resp.analytics = [totalNfts |-> 2, uniqueOwners |-> 1]
    /\ Len(rq[r].result.activeOwnership) = 2

\* ------------------------------------- the preview specification, SpecPreview
\* One request to the "sem" or the "lim" route, of any token type, in either
\* format, over MaxPreviewPages pages whose logs leave up to five entries:
\* more than MAX_PREVIEW.
TopicD == <<"0", "x", "0", "0", "0", "d">>

TopicE == <<"0", "x", "0", "0", "0", "e">>

Preview721LogSeqs ==
  {MerkleMints({1, 2, 3}), MerkleMints({4, 5}), MerkleMints({2, 4}), <<Burn1>>}

Preview20LogSeqs ==
  {<<E20(TopicZero, TopicA, 5), E20(TopicZero, TopicB, 4), E20(TopicZero, TopicC, 3)>>,
   <<E20(TopicZero, TopicD, 2), E20(TopicZero, TopicE, 1)>>,
   <<E20(TopicZero, TopicD, 7), E20(TopicA, TopicB, 5)>>}

Preview1155LogSeqs ==
  {<<Batch1155(TopicZero, TopicA, <<7, 8, 9>>, <<3, 4, 5>>)>>,
   <<Batch1155(TopicZero, TopicB, <<7, 8>>, <<1, 1>>)>>,
   <<Single1155(TopicZero, TopicC, 7, 2), Single1155(TopicA, TopicZero, 9, 5)>>}

PreviewLogSeqs(tokenType) ==
  CASE tokenType = "erc20" -> Preview20LogSeqs
    [] tokenType = "erc1155" -> Preview1155LogSeqs
    [] OTHER -> Preview721LogSeqs

\* MaxPreviewPages pages, the last one at the head
PreviewNexts(from, hd) == IF from < hd THEN {from + 1} ELSE {}

PreviewResponses(tokenType, from, hd) ==
  {response \in UpstreamResponses(from, hd, PreviewLogSeqs(tokenType), PreviewNexts(from, hd)) :
     PreviewNexts(from, hd) # {} => "next_block" \in DOMAIN response}

InitPreview == InitWith({"sem", "lim"}, TRUE, MaxPreviewPages - 1)

NextPreview ==
  \/ GetSem(1, {ContractValid}, {<<"k">>}, TokenTypes("sem"))
  \/ GetLim(1, {ContractValid}, TokenTypes("lim"))
  \/ HeightReturn(1, Formats)
  \/ PageReturn(1, PreviewResponses(rq[1].tokenType, rq[1].loc.fromBlock, head), Formats)

SpecPreview == InitPreview /\ [][NextPreview]_vars

\* the finalized entry list of a value a fetch function returned
EntryList(tokenType, result) ==
  CASE tokenType = "erc20" -> result.activeBalances
    [] tokenType = "erc1155" -> result.holdings
    [] OTHER -> result.activeOwnership

\* an entry as a CSV row
RowOf(tokenType, entry) ==
  CASE tokenType = "erc20" -> <<entry.address, entry.balance>>
    [] tokenType = "erc1155" -> <<entry.address, entry.tokenId, entry.balance>>
    [] OTHER -> <<entry.tokenId, entry.owner>>

\* the analytics of the JSON response, computed over every entry of the list
AnalyticsOver(tokenType, entries) ==
  CASE tokenType = "erc20" ->
         [totalSupply |-> BigIntToString(SumSeq([i \in 1..Len(entries) |->
                                                   BigInt(entries[i].balance)])),
          holders |-> Len(entries)]
    [] tokenType = "erc1155" ->
         [totalHoldings |-> Len(entries),
          uniqueOwners |-> Cardinality({entries[i].address : i \in 1..Len(entries)}),
          uniqueTokenIds |-> Cardinality({entries[i].tokenId : i \in 1..Len(entries)})]
    [] OTHER ->
         [totalNfts |-> Len(entries),
          uniqueOwners |-> Cardinality({entries[i].owner : i \in 1..Len(entries)})]

\* C37: for every token type the data list of the JSON response is the first
\* min(MAX_PREVIEW, n) entries of the finalized list of n entries, in its
\* order, while the analytics are computed over all n entries; the CSV export
\* of the same list has one row for each of the n entries, in the same order.
C37_PreviewTruncation ==
  \A r \in Req :
    LET q == rq[r]
    IN (q.result.kind = "value" /\ q.pc = "done" /\ q.resp.status = 200) =>
         /\ q.resp.format = "json" =>
              /\ Len(q.resp.data) = Min(MAX_PREVIEW, Len(EntryList(q.tokenType, q.result)))
              /\ \A i \in 1..Len(q.resp.data) :
                   q.resp.data[i] = EntryList(q.tokenType, q.result)[i]
              /\ q.resp.analytics
                   = AnalyticsOver(q.tokenType, EntryList(q.tokenType, q.result))
         /\ q.resp.format = "csv" =>
              q.resp.rows = [i \in 1..Len(EntryList(q.tokenType, q.result)) |->
                               RowOf(q.tokenType, EntryList(q.tokenType, q.result)[i])]

\* the JSON response to an ERC-721 fetch whose list has one entry more than
\* MAX_PREVIEW: data stops at MAX_PREVIEW, totalNfts counts every entry
C37_Witness ==
  \E r \in Req :
    /\ rq[r].pc = "done" /\ rq[r].resp.status = 200 /\ rq[r].resp.format = "json"
    /\ rq[r].tokenType = "erc721"
    /\ Len(rq[r].result.activeOwnership) = MAX_PREVIEW + 1
    /\ Len(rq[r].resp.data) = MAX_PREVIEW
    /\ rq[r].resp.analytics.totalNfts = MAX_PREVIEW + 1

====
